---- MODULE Spec2Model ----
(***************************************************************************)
(* A state-machine model of the snek_os kernel core: the snalloc slab heap,*)
(* the interrupt vector table with its RAII guards, the page-fault driven  *)
(* lazy heap mapping, the monotonic clock, the work-stealing executor with *)
(* the panic handler, the frame allocator and the mapping of device memory.*)
(*                                                                         *)
(* Addresses.  The kernel's virtual addresses are 48-bit; the model keeps  *)
(* every address as a byte address (for the high half, its low 48 bits)    *)
(* but shrinks the unit 2^44 to AddrUnit = 2^14.  All region bounds of the *)
(* kernel are small multiples of 2^44, minus at most one page, so the      *)
(* scaled bounds keep their order, their page alignment and - because      *)
(* 2^14 / 8 is a multiple of 2048 - the residue of every slab sub-range    *)
(* modulo every slab size.  A page table of the model spans one AddrUnit.  *)
(***************************************************************************)
EXTENDS Integers, Sequences, FiniteSets, TLC

VARIABLES
    \* ---- snalloc (crates/snalloc/src/lib.rs) ----
    slabs,        \* Inner.slabs: <<[start, end, next, size]>>, 1..7
    heapMem,      \* first word of each cell whose word is non-zero: addr -> usize
    live,         \* ghost: allocations returned by alloc and not yet freed
    heapRet,      \* ghost: what the last alloc/dealloc call was and returned
    heapHist,     \* ghost: progress of an alloc; dealloc; alloc round trip
    \* ---- interrupt vector table (kernel/src/arch/x86_64/interrupts.rs) ----
    INTERRUPT_HANDLERS, \* the non-None slots: slot index -> [kind, id]
    ioapicEntry,  \* redirection entries written so far: gsi -> [itype, enabled]
    msiDev,       \* MSI / MSI-X state of each PCI device: [enabled, vector]
    irqPc,        \* per CPU: the registration or drop that is in progress
    guards,       \* ghost: the InterruptGuards returned and not yet dropped
    dropped,      \* ghost: the InterruptGuards whose drop has finished
    nextId,       \* ghost: identity given to the next handler passed in
    irqEvent,     \* ghost: what the last step of the interrupt code completed
    irqPanic,     \* a panic!() was reached in the interrupt code
    \* ---- lazy heap mapping (arch/x86_64/allocator.rs, memory.rs) ----
    MAPPER,       \* the mapped pages of the low half: page address -> frame
    tables,       \* the table keys whose P3, P2 and P1 page tables exist
    FRAME_ALLOCATOR, \* number of frames the allocator's iterator has handed out
    pageData,     \* what the bytes of each mapped page read as
    mapperLock,   \* holder of the spinlock of MAPPER
    frameLock,    \* holder of the spinlock of FRAME_ALLOCATOR
    faultPc,      \* per CPU: the page fault it is handling
    tlbPending,   \* CPUs with a LOCAL_APIC_TLB_FLUSH IPI sent and not yet taken
    tlb,          \* per CPU: the <<page, frame>> results of page walks its TLB holds
    lazyEvent,    \* ghost: what the last step of the paging code completed
    \* ---- monotonic clock (arch/x86_64/time.rs, hpet.rs) ----
    hpetCounter,  \* the main counter register of the HPET
    UPTIME_MS,    \* milliseconds counted by the timer ticks
    LAST_HPET,    \* the HPET counter value stored by the last tick
    tickPc,       \* position of CPU 0 inside the timer interrupt handler
    CLOCK_TICKS,  \* task/timer.rs CLOCK_TICKS: the ticks the timer wheel has seen
    timerIrqs,    \* ghost, per CPU: the timer interrupts the CPU has taken
    nowPc,        \* per CPU: position and locals of its call of now()
    maxReturned,  \* ghost: the largest result a finished call of now() returned
    timeEvent,    \* ghost: what the last step of the clock code completed
    \* ---- executor and panic handler (task/executor.rs, panic.rs) ----
    FULL,         \* panic.rs FULL: late_init has run
    PANIC_COUNT,  \* per core: the Local<AtomicUsize> of panic.rs
    initialized,  \* RUNTIME.initialized: schedulers handed out so far
    execId,       \* per core: Executor.id, or NoId before Executor::new
    injector,     \* RUNTIME.injector: the global queue, oldest first
    runq,         \* per core: the run queue of its StaticScheduler
    coreSt,       \* per core: where it is in Executor::run, and the task it polls
    taskSt,       \* per task: new / queued / polling / waiting / complete
    joinOut,      \* per task: the outputs its JoinHandle was given, in order
    payloads,     \* the PanicData boxes that exist (created and not yet dropped)
    execEvent,    \* ghost: what the last step of the executor completed
    \* ---- frame allocator (arch/x86_64/memory.rs, stack_allocator.rs) ----
    free_frames,  \* BootInfoFrameAllocator.free_frames: the list, head first
    arenaCurrent, \* FRAME_ALLOCATOR_ALLOCATOR.inner.current
    liveFrames,   \* ghost: frames returned by allocate_frame and not deallocated
    freedOrder,   \* ghost: frames deallocated and not handed out again, oldest first
    frameEvent,   \* ghost: what the last call of the frame allocator did
    framePanic,   \* the unwrap in StackAllocator::own panicked
    \* ---- mapping of device memory (arch/x86_64/memory.rs) ----
    kernelMap,    \* the mapped pages of the high half: page address -> frame address
    kernelTables, \* the table keys of the high half whose page tables exist
    mapPc,        \* per CPU: position and locals of its call of map_address
    mapCalls,     \* ghost: calls of map_address made so far
    mapEvent,     \* ghost: what the last step of map_address completed
    mapPanic,     \* an expect or unwrap inside map_pages_from panicked
    \* ---- boot and SMP bring-up (arch/x86_64/mod.rs, gdt.rs, interrupts.rs) ----
    interruptsOn, \* per CPU: RFLAGS.IF
    bspPc,        \* where the BSP is in its boot sequence
    infos,        \* init_smp: the ApInfo values collected so far
    AP_INFO,      \* the static AP_INFO: [some, v]
    goto_address, \* the CPUs whose goto_address has been written
    apDone,       \* per CPU: the steps of start_smp it has performed, in order
    apGdt,        \* per CPU: the GDT it took from AP_INFO and loaded, 0 for none
    bootEvent,    \* ghost: what the last step of the boot code did
    bootPanic,    \* a panic was reached in the boot code
    \* ---- PCI scan and driver setup (arch/x86_64/pci.rs, drivers/mod.rs) ----
    pciDevice,    \* the function scan_function looked at last: its BAR registers,
                  \* the bars recorded for it, ghost: the slots that were read
    drvPc,        \* where drivers::init is: "start", "pci", "panicked"
    drvSeen,      \* the number of PCI devices drivers::init has been through
    drvEvent,     \* ghost: what the last step of drivers::init did
    \* ---- the spinlocks of heap, mapper and frame allocator ----
    lkHolder,     \* per lock ("heap", "mapper", "frames"): the CPU that holds it
    lkPc,         \* per CPU: what it is doing, the page concerned, and whether the
                  \* page fault it is in was taken inside GlobalAlloc::alloc
    lkMapped,     \* the pages (of the heap and of the device region) that are mapped
    lkFrames,     \* the frames the frame allocator has left
    \* ---- interrupt entry and exit on a CPU (arch/x86_64/interrupts.rs) ----
    isrSlot,      \* the slot of one MSI vector: 0 for None, else the closure it holds
    isrSource,    \* the device's MSI capability is enabled
    isrReg,       \* set_interrupt_msi is between set_enabled(true) and the store
    isrNext,      \* the identity the next boxed closure gets
    isrFreed,     \* the closures whose Box has been dropped
    isrStack,     \* per CPU: the handlers it is inside, innermost last
    inService,    \* per CPU: the interrupts in service at its LAPIC (ISR bits)
    logHolder,    \* the CPU whose task code holds LOCK of Collector::event
    isrEvent,     \* ghost: what the last step did
    rlQueue,      \* per core, the number of runnable tasks in its local queue
    rlInjector,   \* the number of tasks in the injector
    rlPc,         \* per core, where Executor::run is, and what its tick has seen so far
    rlSleeps,     \* ghost: per core, halts entered with a task queued since its last tick
    rlEvent,      \* ghost: what the last step of the run loop completed
    SLEEPING,     \* pit::SLEEPING
    pitPc,        \* where Pit::sleep is, with its local interrupts_enabled and what ended it
    pitIf,        \* the interrupt flag of the CPU that calls Pit::sleep
    pitCounter,   \* channel 0 of the PIT: "stale", "armed" by this call, or "expired"
    pitPending,   \* the PIT interrupt that is raised and not yet handled, and its origin
    pitCalls,     \* the number of calls of Pit::sleep begun
    pitEvent,     \* ghost: what the last step completed
    netRun,       \* where Interface::run is: "poll" or suspended in "select"
    ip_addrs,     \* inner.iface.ip_addrs(): the IPv4 addresses, in order
    default_route,\* the default IPv4 route of the interface, 0 for none
    dns_servers,  \* inner.dns_servers, in order
    current_config,\* dhcp4's local current_config, NoLease for None
    netConfigures,\* the number of Configure events handled
    netEvent,     \* ghost: what the last step completed
    KEY_QUEUE,    \* the keys in the queue, oldest first
    KEY_WAKER,    \* whether the AtomicWaker holds a waker
    kbdIrq,       \* where the keyboard interrupt handler is
    kbdTask,      \* where the task that calls next_key is
    kbdNotified,  \* the task's waker has been woken and the task not polled since
    kbdNext,      \* the number of the next key the keyboard sends
    kbdAccepted,  \* ghost: the keys pushed successfully and not yet returned
    kbdEvent      \* ghost: what the last step completed

heapVars == <<slabs, heapMem, live, heapRet, heapHist>>

irqVars == <<INTERRUPT_HANDLERS, ioapicEntry, msiDev, irqPc, guards, dropped,
             nextId, irqEvent, irqPanic>>

lazyVars == <<MAPPER, tables, FRAME_ALLOCATOR, pageData, mapperLock, frameLock,
              faultPc, tlbPending, tlb, lazyEvent>>

timeVars == <<hpetCounter, UPTIME_MS, LAST_HPET, tickPc, nowPc, maxReturned,
              timeEvent, CLOCK_TICKS, timerIrqs>>

execVars == <<FULL, PANIC_COUNT, initialized, execId, injector, runq, coreSt,
              taskSt, joinOut, payloads, execEvent>>

frameVars == <<free_frames, arenaCurrent, liveFrames, freedOrder, frameEvent,
               framePanic>>

mapVars == <<kernelMap, kernelTables, mapPc, mapCalls, mapEvent, mapPanic>>

bootVars == <<interruptsOn, bspPc, infos, AP_INFO, goto_address, apDone, apGdt,
              bootEvent, bootPanic>>

pciVars == <<pciDevice, drvPc, drvSeen, drvEvent>>

lockVars == <<lkHolder, lkPc, lkMapped, lkFrames>>

isrVars == <<isrSlot, isrSource, isrReg, isrNext, isrFreed, isrStack, inService, logHolder, isrEvent>>

runVars == <<rlQueue, rlInjector, rlPc, rlSleeps, rlEvent>>

pitVars == <<SLEEPING, pitPc, pitIf, pitCounter, pitPending, pitCalls, pitEvent>>

netVars == <<netRun, ip_addrs, default_route, dns_servers, current_config, netConfigures, netEvent>>

kbdVars == <<KEY_QUEUE, KEY_WAKER, kbdIrq, kbdTask, kbdNotified, kbdNext, kbdAccepted, kbdEvent>>

\* what the actions of one part of the kernel leave alone
notHeap == <<irqVars, lazyVars, timeVars, execVars, frameVars, mapVars, bootVars, pciVars, lockVars,
    isrVars,
    runVars,
    pitVars,
    netVars,
    kbdVars>>
notIrq == <<heapVars, lazyVars, timeVars, execVars, frameVars, mapVars, bootVars, pciVars, lockVars,
    isrVars,
    runVars,
    pitVars,
    netVars,
    kbdVars>>
notLazy == <<heapVars, irqVars, timeVars, execVars, frameVars, mapVars, bootVars, pciVars, lockVars,
    isrVars,
    runVars,
    pitVars,
    netVars,
    kbdVars>>
notTime == <<heapVars, irqVars, lazyVars, execVars, frameVars, mapVars, bootVars, pciVars, lockVars,
    isrVars,
    runVars,
    pitVars,
    netVars,
    kbdVars>>
notExec == <<heapVars, irqVars, lazyVars, timeVars, frameVars, mapVars, bootVars, pciVars, lockVars,
    isrVars,
    runVars,
    pitVars,
    netVars,
    kbdVars>>
\* the frame allocator's calls change FRAME_ALLOCATOR and nothing else of the
\* paging state
notFrame == <<heapVars, irqVars, timeVars, execVars, mapVars, bootVars, pciVars, lockVars,
              MAPPER, tables, pageData, mapperLock, frameLock, faultPc, tlbPending,
              tlb, lazyEvent,
    isrVars,
    runVars,
    pitVars,
    netVars,
    kbdVars>>
\* map_address takes frames for page tables from FRAME_ALLOCATOR
notMap == <<heapVars, irqVars, timeVars, execVars, frameVars, bootVars, pciVars, lockVars,
            MAPPER, tables, pageData, mapperLock, frameLock, faultPc, tlbPending,
            tlb, lazyEvent,
    isrVars,
    runVars,
    pitVars,
    netVars,
    kbdVars>>
notBoot == <<heapVars, irqVars, lazyVars, timeVars, execVars, frameVars, mapVars,
             pciVars, lockVars,
    isrVars,
    runVars,
    pitVars,
    netVars,
    kbdVars>>
notPci == <<heapVars, irqVars, lazyVars, timeVars, execVars, frameVars, mapVars,
            bootVars, lockVars,
    isrVars,
    runVars,
    pitVars,
    netVars,
    kbdVars>>
notLock == <<heapVars, irqVars, lazyVars, timeVars, execVars, frameVars, mapVars,
             bootVars, pciVars,
    isrVars,
    runVars,
    pitVars,
    netVars,
    kbdVars>>
notIsr == <<heapVars, irqVars, lazyVars, timeVars, execVars, frameVars,
    mapVars, bootVars, pciVars, lockVars,
    runVars,
    pitVars,
    netVars,
    kbdVars>>
notRun == <<heapVars, irqVars, lazyVars, timeVars, execVars, frameVars,
    mapVars, bootVars, pciVars, lockVars, isrVars,
    pitVars,
    netVars,
    kbdVars>>
notPit == <<heapVars, irqVars, lazyVars, timeVars, execVars, frameVars,
    mapVars, bootVars, pciVars, lockVars, isrVars, runVars,
    netVars,
    kbdVars>>
notNet == <<heapVars, irqVars, lazyVars, timeVars, execVars, frameVars,
    mapVars, bootVars, pciVars, lockVars, isrVars, runVars,
    pitVars,
    kbdVars>>
notKbd == <<heapVars, irqVars, lazyVars, timeVars, execVars, frameVars,
    mapVars, bootVars, pciVars, lockVars, isrVars, runVars,
    pitVars, netVars>>

vars == <<slabs, heapMem, live, heapRet, heapHist,
          INTERRUPT_HANDLERS, ioapicEntry, msiDev, irqPc, guards, dropped,
          nextId, irqEvent, irqPanic,
          MAPPER, tables, FRAME_ALLOCATOR, pageData, mapperLock, frameLock,
          faultPc, tlbPending, tlb, lazyEvent,
          hpetCounter, UPTIME_MS, LAST_HPET, tickPc, nowPc, maxReturned,
          timeEvent, CLOCK_TICKS, timerIrqs,
          FULL, PANIC_COUNT, initialized, execId, injector, runq, coreSt,
          taskSt, joinOut, payloads, execEvent,
          free_frames, arenaCurrent, liveFrames, freedOrder, frameEvent,
          framePanic,
          kernelMap, kernelTables, mapPc, mapCalls, mapEvent, mapPanic,
          interruptsOn, bspPc, infos, AP_INFO, goto_address, apDone, apGdt,
          bootEvent, bootPanic,
          pciDevice, drvPc, drvSeen, drvEvent,
          lkHolder, lkPc, lkMapped, lkFrames,
          isrSlot, isrSource, isrReg, isrNext, isrFreed, isrStack, inService, logHolder, isrEvent,
          rlQueue, rlInjector, rlPc, rlSleeps, rlEvent,
          SLEEPING, pitPc, pitIf, pitCounter, pitPending, pitCalls, pitEvent,
          netRun, ip_addrs, default_route, dns_servers, current_config, netConfigures, netEvent,
          KEY_QUEUE, KEY_WAKER, kbdIrq, kbdTask, kbdNotified, kbdNext, kbdAccepted, kbdEvent>>

-----------------------------------------------------------------------------
(* Bounds of the model *)

\* alloc is not called while this many allocations are live
MaxLive == 15
\* dealloc is not called while this many cells are chained in free lists
MaxFreed == 2
\* handlers passed to set_interrupt_static / _dyn / _msi over a run
MaxRegs == 3
\* usable 4 KiB frames in the machine's memory map
NumFrames == 5
\* the HPET counter is not advanced beyond this value
MaxCounter == 3
\* handlers a CPU is inside at once, one within the other
MaxNest == 2
\* closures registered for the MSI vector over a run
MaxClosures == 2
\* frames the frame allocator can hand out in the model of the locks
MaxLkFrames == 2
\* PCI devices drivers::init goes through
NumDevices == 2
\* timer ticks taken by CPU 0 over a run
MaxTicks == 2
\* futures handed to task::spawn over a run
NumTasks == 3
\* calls of map_address over a run
MaxMaps == 3

-----------------------------------------------------------------------------
(* Address space *)

\* the model's stand-in for 2^44 (see the header)
AddrUnit == 2^14

PAGE_SIZE == 4096

\* 0x0000_1000_0000_0000 = 1 * 2^44
MANAGED_START == 1 * AddrUnit
\* 0x0000_7fff_ffff_f000 = 8 * 2^44 - 4096
MANAGED_END == 8 * AddrUnit - PAGE_SIZE

NULL == 0

Max(a, b) == IF a >= b THEN a ELSE b

-----------------------------------------------------------------------------
(* snalloc: seven slab tiers and a buddy fallback *)

\* the sizes handed to SlabAllocator::new, in the order of Inner.slabs
SlabSizes == <<32, 64, 128, 256, 512, 1024, 2048>>

NumSlabs == Len(SlabSizes)

\* a Layout is <<size, align>>; the layouts the model's callers use
Layouts == { <<24, 8>>, <<1024, 1024>>, <<2048, 2048>>, <<4096, 4096>> }

\* Allocator::new(): every slab is SlabAllocator::new(size), all else zero
NewSlabs == [i \in 1..NumSlabs |-> [start |-> 0, end |-> 0, next |-> 0, size |-> SlabSizes[i]]]

\* the region_size computed by Allocator::init(start, size)
RegionSize(size) == size \div (NumSlabs + 1)

\* Inner::slab: the first slab whose size >= max(layout.size, layout.align);
\* 0 stands for None (the buddy fallback is used)
Inner_slab(layout) ==
    LET needed == Max(layout[1], layout[2])
        fits == { i \in 1..NumSlabs : slabs[i].size >= needed }
    IN  IF fits = {} THEN 0 ELSE CHOOSE i \in fits : \A j \in fits : i <= j

\* reading and writing the first word of a cell; memory that was never
\* written reads as zero (lazy_map zero-fills every page it maps)
MemRead(a) == IF a \in DOMAIN heapMem THEN heapMem[a] ELSE 0

MemWrite(a, v) ==
    IF v = 0
    THEN [x \in DOMAIN heapMem \ {a} |-> heapMem[x]]
    ELSE [x \in DOMAIN heapMem \cup {a} |-> IF x = a THEN v ELSE heapMem[x]]

\* no round trip is in progress
NoRound == [phase |-> "none", p |-> NULL, layout |-> <<0, 0>>, tier |-> 0, next1 |-> 0]

\* Allocator::init(start, size): carve the region into NumSlabs + 1 sub-ranges
\* and SlabAllocator::init each slab over its own; the buddy's init is empty
Allocator_init ==
    /\ \A i \in 1..NumSlabs : slabs[i].end = 0
    /\ LET start == MANAGED_START
           region_size == RegionSize(MANAGED_END - MANAGED_START)
       IN  slabs' = [i \in 1..NumSlabs |->
                        [start |-> start + region_size * (i - 1),
                         end   |-> start + region_size * (i - 1) + region_size,
                         next  |-> start + region_size * (i - 1),
                         size  |-> slabs[i].size]]
    /\ heapRet' = [op |-> "init", layout |-> <<0, 0>>, ptr |-> NULL]
    /\ heapHist' = NoRound
    /\ UNCHANGED <<heapMem, live>>
    /\ UNCHANGED notHeap

\* SlabAllocator::alloc on slab i: null when next >= end, otherwise hand out
\* the cell at next, clear its word and advance next (bump or free-list pop)
SlabAllocator_alloc(i, layout) ==
    IF slabs[i].next >= slabs[i].end
    THEN /\ heapRet' = [op |-> "alloc", layout |-> layout, ptr |-> NULL]
         /\ UNCHANGED <<slabs, heapMem, live>>
    ELSE LET cell == slabs[i].next
             cell_next == MemRead(cell)
         IN  /\ heapMem' = MemWrite(cell, 0)
             /\ slabs' = [slabs EXCEPT ![i].next =
                             IF cell_next = 0 THEN cell + slabs[i].size ELSE cell_next]
             /\ live' = live \cup {[ptr |-> cell, layout |-> layout]}
             /\ heapRet' = [op |-> "alloc", layout |-> layout, ptr |-> cell]

\* BuddyAllocator::alloc: always null
BuddyAllocator_alloc(layout) ==
    /\ heapRet' = [op |-> "alloc", layout |-> layout, ptr |-> NULL]
    /\ UNCHANGED <<slabs, heapMem, live>>

\* GlobalAlloc::alloc; an alloc(L) that directly follows p = alloc(L);
\* dealloc(p, L) completes the round trip
Alloc(layout) ==
    /\ Cardinality(live) < MaxLive
    /\ IF Inner_slab(layout) # 0
       THEN SlabAllocator_alloc(Inner_slab(layout), layout)
       ELSE BuddyAllocator_alloc(layout)
    /\ heapHist' = IF heapHist.phase = "freed" /\ heapHist.layout = layout
                   THEN [heapHist EXCEPT !.phase = "done"]
                   ELSE NoRound
    /\ UNCHANGED notHeap

\* SlabAllocator::dealloc without the store to self.next
SlabAllocator_dealloc_nolink(i, ptr) ==
    /\ heapMem' = MemWrite(ptr, slabs[i].next)
    /\ slabs' = slabs

\* SlabAllocator::dealloc on slab i: push the cell on the free list
SlabAllocator_dealloc(i, ptr) ==
    /\ heapMem' = MemWrite(ptr, slabs[i].next)
    /\ slabs' = [slabs EXCEPT ![i].next = ptr]

\* GlobalAlloc::dealloc, called with a live pointer and its own layout; no
\* live pointer comes from the buddy, whose alloc only returns null
Dealloc(a) ==
    /\ Cardinality(DOMAIN heapMem) < MaxFreed
    /\ Inner_slab(a.layout) # 0
    /\ SlabAllocator_dealloc(Inner_slab(a.layout), a.ptr)
    /\ live' = live \ {a}
    /\ heapRet' = [op |-> "dealloc", layout |-> a.layout, ptr |-> a.ptr]
    /\ heapHist' = IF heapRet.op = "alloc" /\ heapRet.ptr = a.ptr
                      /\ heapRet.layout = a.layout
                   THEN [phase |-> "freed", p |-> a.ptr, layout |-> a.layout,
                         tier |-> Inner_slab(a.layout),
                         next1 |-> slabs[Inner_slab(a.layout)].next]
                   ELSE NoRound
    /\ UNCHANGED notHeap

HeapInit ==
    /\ slabs = NewSlabs
    /\ heapMem = <<>>
    /\ live = {}
    /\ heapRet = [op |-> "new", layout |-> <<0, 0>>, ptr |-> NULL]
    /\ heapHist = NoRound

HeapNext ==
    \/ Allocator_init
    \/ \E layout \in Layouts : Alloc(layout)
    \/ \E a \in live : Dealloc(a)

-----------------------------------------------------------------------------
(* Interrupt vector table, registration and RAII guards *)

CPUS == {0, 1}

IOAPIC_START == 32
NUM_VECTORS == 256
LOCAL_APIC_TLB_FLUSH == NUM_VECTORS - 4
LAST_FREE == LOCAL_APIC_TLB_FLUSH - 1

\* the length of the INTERRUPT_HANDLERS array
NumHandlers == 224

\* the platform as the MADT describes it: one IOAPIC at GSI base 0 whose last
\* redirection entry is 23, and the usual override of ISA IRQ 0 to GSI 2
IoApics == { [global_system_interrupt_base |-> 0, max_table_entry |-> 23] }

InterruptSourceOverrides ==
    { [isa_source |-> 0, global_system_interrupt |-> 2, itype |-> "EdgeHigh"] }

\* the PCI devices handed to set_interrupt_msi and the capability each has
Devices == { "dev_msi", "dev_msix", "dev_legacy" }

Capability(dev) ==
    CASE dev = "dev_msi" -> "Msi"
      [] dev = "dev_msix" -> "MsiX"
      [] OTHER -> "None"

\* the gsi arguments of set_interrupt_static / set_interrupt_dyn
GsiInputs == {0, 1, 23, 24}

InterruptTypes == {"EdgeHigh", "LevelLow"}

\* the vectors on which the model delivers interrupts
DeliveredVectors == {33, 55, 56}

SetMax(S) == CHOOSE x \in S : \A y \in S : y <= x

\* init_ioapic: first_free = max over the IOAPICs of IOAPIC_START + base +
\* max_table_entry, stored into FIRST_FREE
FIRST_FREE ==
    SetMax({0} \cup { IOAPIC_START + a.global_system_interrupt_base + a.max_table_entry :
                        a \in IoApics })

\* get_io_apic: the IOAPICs serving gsi (the code returns the first; none panics)
get_io_apic(gsi) ==
    { a \in IoApics : /\ gsi >= a.global_system_interrupt_base
                      /\ gsi - a.global_system_interrupt_base <= a.max_table_entry }

\* set_interrupt, lines 853-865: the override of the ISA source, if any
Resolve(gsi, itype) ==
    LET isos == { o \in InterruptSourceOverrides : o.isa_source = gsi }
    IN  IF isos = {} THEN <<gsi, itype>>
        ELSE LET o == CHOOSE o \in isos : TRUE
             IN  <<o.global_system_interrupt, o.itype>>

\* InterruptHandler::None; Static(f) and Dynamic(f) carry the identity of f
None == [kind |-> "None", id |-> 0]

Slot(i) == IF i \in DOMAIN INTERRUPT_HANDLERS THEN INTERRUPT_HANDLERS[i] ELSE None

SlotWrite(i, h) ==
    IF h = None
    THEN [x \in DOMAIN INTERRUPT_HANDLERS \ {i} |-> INTERRUPT_HANDLERS[x]]
    ELSE [x \in DOMAIN INTERRUPT_HANDLERS \cup {i} |->
             IF x = i THEN h ELSE INTERRUPT_HANDLERS[x]]

Idle == [op |-> "idle"]

\* irqEvent after a step that completes no registration, drop or dispatch
Step == [ev |-> "step"]

\* set_interrupt up to and including the store of the handler: the override,
\* get_io_apic, set_table_entry with the new flags, INTERRUPT_HANDLERS[gsi] = h
set_interrupt_store(c, gsi_in, itype_in, kind) ==
    /\ ~irqPanic
    /\ UNCHANGED notIrq
    /\ irqPc[c] = Idle
    /\ nextId <= MaxRegs
    /\ nextId' = nextId + 1
    /\ LET r == Resolve(gsi_in, itype_in)
           gsi == r[1]
           h == [kind |-> kind, id |-> nextId]
       IN  IF get_io_apic(gsi) = {}
           THEN /\ irqPanic' = TRUE
                /\ irqEvent' = Step
                /\ UNCHANGED <<INTERRUPT_HANDLERS, ioapicEntry, msiDev, irqPc, guards,
                               dropped>>
           ELSE /\ ioapicEntry' =
                       [x \in DOMAIN ioapicEntry \cup {gsi} |->
                           [itype |-> IF x = gsi THEN r[2] ELSE ioapicEntry[x].itype,
                            enabled |-> IF x \in DOMAIN ioapicEntry
                                        THEN ioapicEntry[x].enabled ELSE FALSE]]
                /\ INTERRUPT_HANDLERS' = SlotWrite(gsi, h)
                /\ irqPc' = [irqPc EXCEPT ![c] = [op |-> "set_interrupt", gsi |-> gsi,
                                                  id |-> nextId]]
                /\ irqEvent' = Step
                /\ UNCHANGED <<msiDev, guards, dropped, irqPanic>>

\* the rest of set_interrupt: enable_irq(vector) and the guard IoApic(gsi)
set_interrupt_enable(c) ==
    /\ ~irqPanic
    /\ UNCHANGED notIrq
    /\ irqPc[c].op = "set_interrupt"
    /\ LET gsi == irqPc[c].gsi
           g == [kind |-> "IoApic", gsi |-> gsi, id |-> irqPc[c].id, dev |-> "none"]
       IN  /\ ioapicEntry' = [ioapicEntry EXCEPT ![gsi].enabled = TRUE]
           /\ guards' = guards \cup {g}
           /\ irqEvent' = [ev |-> "registered", guard |-> g]
    /\ irqPc' = [irqPc EXCEPT ![c] = Idle]
    /\ UNCHANGED <<INTERRUPT_HANDLERS, msiDev, dropped, nextId, irqPanic>>

\* set_interrupt_msi, lines 764-777: the first i in first_free..=LAST_FREE whose
\* slot i - 32 is None, or 0
MsiScanResult ==
    LET free == { i \in FIRST_FREE..LAST_FREE : Slot(i - 32) = None }
    IN  IF free = {} THEN 0 ELSE CHOOSE i \in free : \A j \in free : i <= j

set_interrupt_msi_scan(c, dev) ==
    /\ ~irqPanic
    /\ UNCHANGED notIrq
    /\ irqPc[c] = Idle
    /\ nextId <= MaxRegs
    /\ nextId' = nextId + 1
    /\ IF MsiScanResult = 0
       THEN /\ irqEvent' = [ev |-> "msi_none", guard |-> "none"]
            /\ UNCHANGED irqPc
       ELSE /\ irqPc' = [irqPc EXCEPT ![c] = [op |-> "msi_scanned", gsi |-> MsiScanResult,
                                              dev |-> dev, id |-> nextId]]
            /\ irqEvent' = Step
    /\ UNCHANGED <<INTERRUPT_HANDLERS, ioapicEntry, msiDev, guards, dropped, irqPanic>>

\* set_interrupt_msi, lines 779-834: the first Msi or MsiX capability is given
\* the message (vector = gsi) and enabled; without one the call returns None
set_interrupt_msi_program(c) ==
    /\ ~irqPanic
    /\ UNCHANGED notIrq
    /\ irqPc[c].op = "msi_scanned"
    /\ IF Capability(irqPc[c].dev) = "None"
       THEN /\ irqPc' = [irqPc EXCEPT ![c] = Idle]
            /\ irqEvent' = [ev |-> "msi_none", guard |-> "none"]
            /\ UNCHANGED msiDev
       ELSE /\ msiDev' = [msiDev EXCEPT ![irqPc[c].dev] =
                             [enabled |-> TRUE, vector |-> irqPc[c].gsi]]
            /\ irqPc' = [irqPc EXCEPT ![c].op = "msi_mapped"]
            /\ irqEvent' = Step
    /\ UNCHANGED <<INTERRUPT_HANDLERS, ioapicEntry, guards, dropped, nextId, irqPanic>>

\* set_interrupt_msi, lines 836-842: INTERRUPT_HANDLERS[gsi - 32] = Dynamic(f)
\* and the guard Msi(cap, gsi) / MsiX(cap, gsi) is returned
set_interrupt_msi_install(c) ==
    /\ ~irqPanic
    /\ UNCHANGED notIrq
    /\ irqPc[c].op = "msi_mapped"
    /\ LET gsi == irqPc[c].gsi
           g == [kind |-> Capability(irqPc[c].dev), gsi |-> gsi, id |-> irqPc[c].id,
                 dev |-> irqPc[c].dev]
       IN  /\ INTERRUPT_HANDLERS' = SlotWrite(gsi - 32, [kind |-> "Dynamic", id |-> irqPc[c].id])
           /\ guards' = guards \cup {g}
           /\ irqEvent' = [ev |-> "registered", guard |-> g]
    /\ irqPc' = [irqPc EXCEPT ![c] = Idle]
    /\ UNCHANGED <<ioapicEntry, msiDev, dropped, nextId, irqPanic>>

\* InterruptGuard::drop, lines 719-740: the source is masked or disabled
drop_disable(c, g) ==
    /\ ~irqPanic
    /\ UNCHANGED notIrq
    /\ irqPc[c] = Idle
    /\ g \in guards
    /\ guards' = guards \ {g}
    /\ IF g.kind = "IoApic"
       THEN IF get_io_apic(g.gsi) = {}
            THEN /\ irqPanic' = TRUE
                 /\ UNCHANGED <<ioapicEntry, msiDev, irqPc>>
            ELSE /\ ioapicEntry' = [ioapicEntry EXCEPT ![g.gsi].enabled = FALSE]
                 /\ irqPc' = [irqPc EXCEPT ![c] = [op |-> "drop", guard |-> g]]
                 /\ UNCHANGED <<msiDev, irqPanic>>
       ELSE /\ msiDev' = [msiDev EXCEPT ![g.dev].enabled = FALSE]
            /\ irqPc' = [irqPc EXCEPT ![c] = [op |-> "drop", guard |-> g]]
            /\ UNCHANGED <<ioapicEntry, irqPanic>>
    /\ irqEvent' = Step
    /\ UNCHANGED <<INTERRUPT_HANDLERS, dropped, nextId>>

\* InterruptGuard::drop, lines 742-744: INTERRUPT_HANDLERS[gsi as usize] = None,
\* with the guard's own gsi field as the index (a bounds-checked array index)
drop_clear(c) ==
    /\ ~irqPanic
    /\ UNCHANGED notIrq
    /\ irqPc[c].op = "drop"
    /\ LET g == irqPc[c].guard
       IN  IF g.gsi >= NumHandlers
           THEN /\ irqPanic' = TRUE
                /\ irqEvent' = Step
                /\ UNCHANGED <<INTERRUPT_HANDLERS, irqPc, dropped>>
           ELSE /\ INTERRUPT_HANDLERS' = SlotWrite(g.gsi, None)
                /\ irqPc' = [irqPc EXCEPT ![c] = Idle]
                /\ dropped' = dropped \cup {g}
                /\ irqEvent' = [ev |-> "dropped", guard |-> g, slot |-> g.gsi]
                /\ UNCHANGED irqPanic
    /\ UNCHANGED <<ioapicEntry, msiDev, guards, nextId>>

\* handler!(i): an interrupt on vector i runs what INTERRUPT_HANDLERS[i - 32]
\* holds (None only warns); ran is the identity of the handler that ran, 0 for
\* none, and owners are the handlers of the live IOAPIC guards of that slot
handle_interrupt(i) ==
    /\ ~irqPanic
    /\ UNCHANGED notIrq
    /\ LET h == Slot(i - 32)
       IN  irqEvent' = [ev |-> "irq", vector |-> i,
                        ran |-> h.id,
                        owners |-> { g.id : g \in { x \in guards :
                                        x.kind = "IoApic" /\ x.gsi = i - IOAPIC_START } }]
    /\ UNCHANGED <<INTERRUPT_HANDLERS, ioapicEntry, msiDev, irqPc, guards, dropped,
                   nextId, irqPanic>>

IrqInit ==
    /\ INTERRUPT_HANDLERS = <<>>
    /\ ioapicEntry = <<>>
    /\ msiDev = [d \in Devices |-> [enabled |-> FALSE, vector |-> 0]]
    /\ irqPc = [c \in CPUS |-> Idle]
    /\ guards = {}
    /\ dropped = {}
    /\ nextId = 1
    /\ irqEvent = [ev |-> "init"]
    /\ irqPanic = FALSE

IrqNext ==
    \/ \E c \in CPUS, gsi \in GsiInputs, t \in InterruptTypes, k \in {"Static", "Dynamic"} :
          set_interrupt_store(c, gsi, t, k)
    \/ \E c \in CPUS : set_interrupt_enable(c)
    \/ \E c \in CPUS, dev \in Devices : set_interrupt_msi_scan(c, dev)
    \/ \E c \in CPUS : set_interrupt_msi_program(c)
    \/ \E c \in CPUS : set_interrupt_msi_install(c)
    \/ \E c \in CPUS, g \in guards : drop_disable(c, g)
    \/ \E c \in CPUS : drop_clear(c)
    \/ \E i \in DeliveredVectors : handle_interrupt(i)

-----------------------------------------------------------------------------
(* Page-fault driven lazy mapping of the heap *)

\* 0x4000_0000_0000 = 4 * 2^44
HEAP_START == 4 * AddrUnit
\* 0x8000_0000_0000 = 8 * 2^44
HEAP_END == 8 * AddrUnit

\* the addresses the kernel touches: the first cell of the heap, the page of
\* scenario S1, a cell in the page at HEAP_START, the page after it, the page
\* at MANAGED_END, and HEAP_END
TouchAddrs ==
    { MANAGED_START, MANAGED_START + 7 * PAGE_SIZE, HEAP_START + 8,
      HEAP_START + PAGE_SIZE, MANAGED_END, HEAP_END }

\* Page::containing_address
PageOf(a) == a - (a % PAGE_SIZE)

\* the sample addresses lie more than 2^39 bytes apart unless they share a
\* unit, so pages of different units share no P3, P2 or P1 table
TableKey(a) == a \div AddrUnit
\* map_to creates the missing P3, P2 and P1 tables, one frame each
TableFrames == 3

NoCpu == 99

\* mapper.translate_addr(address).is_some()
translate_addr(a) == PageOf(a) \in DOMAIN MAPPER

\* the record a completed page fault leaves behind; ret is what lazy_map
\* returned: "true", "false", or "panic" when an unwrap inside it panicked
FaultDone(c, pc, ret, panicked) ==
    [ev |-> "fault_done", cpu |-> c, addr |-> pc.addr, ret |-> ret,
     mappedAtCheck |-> pc.mappedAtCheck,
     allocs |-> pc.allocs, ptes |-> pc.ptes, ipis |-> pc.ipis,
     faults |-> pc.faults, panicked |-> panicked]

\* what a walk of the page table finds for a page: its frame, 0 if the entry
\* is not present
Walk(page) == IF page \in DOMAIN MAPPER THEN MAPPER[page] ELSE 0

\* a CPU reads address a; an unmapped page raises a page fault (CR2 = a).
\* The CPU walks the page table and its TLB may keep what the walk found (a
\* not-present result too, which is more than x86 keeps).
touch(c, a) ==
    /\ UNCHANGED notLazy
    /\ faultPc[c] = Idle
    /\ \E keep \in BOOLEAN :
          tlb' = [tlb EXCEPT ![c] =
                     {t \in @ : t[1] # PageOf(a)}
                     \cup (IF keep THEN {<<PageOf(a), Walk(PageOf(a))>>} ELSE {})]
    /\ IF translate_addr(a)
       THEN /\ lazyEvent' = [ev |-> "access", cpu |-> c, addr |-> a,
                             reads |-> pageData[PageOf(a)]]
            /\ UNCHANGED faultPc
       ELSE /\ faultPc' = [faultPc EXCEPT ![c] =
                    [op |-> "fault", addr |-> a, faults |-> 1, mappedAtCheck |-> FALSE,
                     allocs |-> 0, ptes |-> 0, ipis |-> 0]]
            /\ lazyEvent' = Step
    /\ UNCHANGED <<MAPPER, tables, FRAME_ALLOCATOR, pageData, mapperLock, frameLock,
                   tlbPending>>

\* page_fault_handler up to lazy_map's two early returns; a false return makes
\* the handler panic, which halts this CPU
lazy_map_check(c) ==
    /\ UNCHANGED notLazy
    /\ faultPc[c].op = "fault"
    /\ LET pc == faultPc[c]
           a == pc.addr
       IN  IF a < HEAP_START \/ a >= HEAP_END
           THEN /\ faultPc' = [faultPc EXCEPT ![c] = [op |-> "panicked"]]
                /\ lazyEvent' = FaultDone(c, [pc EXCEPT !.mappedAtCheck = translate_addr(a)],
                                          "false", TRUE)
                /\ UNCHANGED mapperLock
           ELSE /\ mapperLock = NoCpu
                /\ IF translate_addr(a)
                   THEN /\ faultPc' = [faultPc EXCEPT ![c] = [op |-> "panicked"]]
                        /\ lazyEvent' = FaultDone(c, [pc EXCEPT !.mappedAtCheck = TRUE],
                                                  "false", TRUE)
                        /\ UNCHANGED mapperLock
                   ELSE /\ faultPc' = [faultPc EXCEPT ![c].op = "locked"]
                        /\ mapperLock' = c
                        /\ lazyEvent' = Step
    /\ UNCHANGED <<MAPPER, tables, FRAME_ALLOCATOR, pageData, frameLock, tlbPending,
                   tlb>>

\* allocate_frame().unwrap() and map_to(page, frame, flags, ..).unwrap().flush()
lazy_map_map(c) ==
    /\ UNCHANGED notLazy
    /\ faultPc[c].op = "locked"
    /\ frameLock = NoCpu
    /\ frameLock' = c
    /\ LET pc == faultPc[c]
           page == PageOf(pc.addr)
           need == IF TableKey(page) \in tables THEN 0 ELSE TableFrames
       IN  IF FRAME_ALLOCATOR >= NumFrames
           THEN \* allocate_frame() is None: unwrap panics with both locks held
                /\ faultPc' = [faultPc EXCEPT ![c] = [op |-> "panicked"]]
                /\ lazyEvent' = FaultDone(c, pc, "panic", TRUE)
                /\ UNCHANGED <<MAPPER, tables, FRAME_ALLOCATOR, pageData, tlb>>
           ELSE IF FRAME_ALLOCATOR + 1 + need > NumFrames
           THEN \* map_to is Err(FrameAllocationFailed): unwrap panics
                /\ FRAME_ALLOCATOR' = NumFrames
                /\ faultPc' = [faultPc EXCEPT ![c] = [op |-> "panicked"]]
                /\ lazyEvent' = FaultDone(c, [pc EXCEPT !.allocs = NumFrames - FRAME_ALLOCATOR],
                                          "panic", TRUE)
                /\ UNCHANGED <<MAPPER, tables, pageData, tlb>>
           ELSE /\ FRAME_ALLOCATOR' = FRAME_ALLOCATOR + 1 + need
                /\ MAPPER' = [p \in DOMAIN MAPPER \cup {page} |->
                                 IF p = page THEN FRAME_ALLOCATOR + 1 ELSE MAPPER[p]]
                /\ tables' = tables \cup {TableKey(page)}
                /\ pageData' = [p \in DOMAIN pageData \cup {page} |->
                                   IF p = page THEN "garbage" ELSE pageData[p]]
                /\ faultPc' = [faultPc EXCEPT ![c].op = "mapped",
                                              ![c].allocs = 1 + need,
                                              ![c].ptes = 1]
                \* MapperFlush::flush: invlpg of the page on this CPU
                /\ tlb' = [tlb EXCEPT ![c] = {t \in @ : t[1] # page}]
                /\ lazyEvent' = Step
    /\ UNCHANGED <<mapperLock, tlbPending>>

\* an IPI that reaches nobody
IpiTargets_none(c) == {}

\* IpiAllShorthand::AllExcludingSelf
IpiTargets(c) == CPUS \ {c}

\* send_flush_tlb: an IPI to every CPU but the sender
send_flush_tlb(c) ==
    /\ UNCHANGED notLazy
    /\ faultPc[c].op = "mapped"
    /\ tlbPending' = tlbPending \cup IpiTargets(c)
    /\ faultPc' = [faultPc EXCEPT ![c].op = "flushed", ![c].ipis = 1]
    /\ lazyEvent' = [ev |-> "ipi", cpu |-> c, vector |-> LOCAL_APIC_TLB_FLUSH,
                     to |-> IpiTargets(c)]
    /\ UNCHANGED <<MAPPER, tables, FRAME_ALLOCATOR, pageData, mapperLock, frameLock,
                   tlb>>

\* the page is filled with zeroes, lazy_map returns true and drops both
\* locks, the handler returns and the CPU repeats the access
lazy_map_fill(c) ==
    /\ UNCHANGED notLazy
    /\ faultPc[c].op = "flushed"
    /\ LET pc == faultPc[c]
           page == PageOf(pc.addr)
       IN  /\ pageData' = [pageData EXCEPT ![page] = "zero"]
           /\ lazyEvent' = FaultDone(c, pc, "true", FALSE)
    /\ mapperLock' = NoCpu
    /\ frameLock' = NoCpu
    /\ faultPc' = [faultPc EXCEPT ![c] = Idle]
    /\ UNCHANGED <<MAPPER, tables, FRAME_ALLOCATOR, tlbPending, tlb>>

\* vector 252 on a CPU that is not inside another handler: flush_all
tlb_flush_interrupt_handler(c) ==
    /\ UNCHANGED notLazy
    /\ c \in tlbPending
    /\ faultPc[c] = Idle
    /\ tlbPending' = tlbPending \ {c}
    /\ tlb' = [tlb EXCEPT ![c] = {}]
    /\ lazyEvent' = [ev |-> "tlb_flush", cpu |-> c]
    /\ UNCHANGED <<MAPPER, tables, FRAME_ALLOCATOR, pageData, mapperLock, frameLock,
                   faultPc>>

LazyInit ==
    /\ MAPPER = << >>
    /\ tables = {}
    /\ FRAME_ALLOCATOR = 0
    /\ pageData = << >>
    /\ mapperLock = NoCpu
    /\ frameLock = NoCpu
    /\ faultPc = [c \in CPUS |-> Idle]
    /\ tlbPending = {}
    /\ tlb = [c \in CPUS |-> {}]
    /\ lazyEvent = Step

LazyNext ==
    \/ \E c \in CPUS, a \in TouchAddrs : touch(c, a)
    \/ \E c \in CPUS : lazy_map_check(c)
    \/ \E c \in CPUS : lazy_map_map(c)
    \/ \E c \in CPUS : send_flush_tlb(c)
    \/ \E c \in CPUS : lazy_map_fill(c)
    \/ \E c \in CPUS : tlb_flush_interrupt_handler(c)

-----------------------------------------------------------------------------
(* The monotonic clock: timer ticks plus HPET interpolation *)

\* acpi::get_hpet() is Some on the modelled machine, so HPET is non-null
HpetPresent == TRUE
\* Hpet::counter_period(): femtoseconds per count (a 100 MHz counter)
CounterPeriod == 10000000
\* TIMER_INTERVAL.as_millis()
TIMER_INTERVAL == 5

\* the None of get_counter()
NoCounter == -1

\* hpet::get_counter()
get_counter == IF HpetPresent THEN hpetCounter ELSE NoCounter

\* u64::saturating_sub
saturating_sub(a, b) == IF a >= b THEN a - b ELSE 0

\* the Duration now() returns, in nanoseconds
now_result(counter, now, last) ==
    IF counter # NoCounter
    THEN now * 1000000 + (saturating_sub(counter, last) * CounterPeriod) \div 1000000
    ELSE now * 1000000

\* the hardware counter counts up
hpet_count ==
    /\ UNCHANGED notTime
    /\ hpetCounter < MaxCounter
    /\ hpetCounter' = hpetCounter + 1
    /\ timeEvent' = Step
    /\ UNCHANGED <<UPTIME_MS, LAST_HPET, tickPc, nowPc, maxReturned, CLOCK_TICKS, timerIrqs>>

\* the test  get_pid() == 0  without the comparison: every CPU ticks
TicksOn_all(c) == TRUE

\* the test  get_pid() == 0  of apic_timer_interrupt_handler
TicksOn(c) == c = 0

\* apic_timer_interrupt_handler on CPU c, up to the end of
\* task::timer::on_tick.  The timer interrupt arrives between any two
\* instructions of the code the CPU runs; on a CPU other than 0 the handler
\* does nothing and this is the whole of it.
apic_timer_interrupt_handler(c) ==
    /\ UNCHANGED notTime
    /\ timerIrqs[c] < MaxTicks
    /\ timerIrqs' = [timerIrqs EXCEPT ![c] = @ + 1]
    /\ IF TicksOn(c)
       THEN /\ tickPc = "idle"
            /\ CLOCK_TICKS' = CLOCK_TICKS + 1
            /\ tickPc' = "ticked"
       ELSE UNCHANGED <<CLOCK_TICKS, tickPc>>
    /\ timeEvent' = Step
    /\ UNCHANGED <<hpetCounter, UPTIME_MS, LAST_HPET, nowPc, maxReturned>>

\* time::on_tick, first statement: UPTIME_MS.fetch_add(5)
on_tick_add ==
    /\ UNCHANGED notTime
    /\ tickPc = "ticked"
    /\ UPTIME_MS' = UPTIME_MS + TIMER_INTERVAL
    /\ tickPc' = "added"
    /\ timeEvent' = Step
    /\ UNCHANGED <<hpetCounter, LAST_HPET, nowPc, maxReturned, CLOCK_TICKS, timerIrqs>>

\* on_tick, second statement: LAST_HPET.store(counter) if there is a counter
on_tick_store ==
    /\ UNCHANGED notTime
    /\ tickPc = "added"
    /\ LAST_HPET' = IF get_counter # NoCounter THEN get_counter ELSE LAST_HPET
    /\ tickPc' = "idle"
    /\ timeEvent' = [ev |-> "tick"]
    /\ UNCHANGED <<hpetCounter, UPTIME_MS, nowPc, maxReturned, CLOCK_TICKS, timerIrqs>>

\* CPU 0 runs nothing else while it is inside the timer handler
Runs(c) == c # 0 \/ tickPc = "idle"

\* now(), first read: the HPET counter
now_get_counter(c) ==
    /\ UNCHANGED notTime
    /\ Runs(c)
    /\ nowPc[c].pc = "idle"
    /\ nowPc' = [nowPc EXCEPT ![c] =
                    [pc |-> "counter", counter |-> get_counter, now |-> 0,
                     floor |-> maxReturned]]
    /\ timeEvent' = Step
    /\ UNCHANGED <<hpetCounter, UPTIME_MS, LAST_HPET, tickPc, maxReturned, CLOCK_TICKS, timerIrqs>>

\* now(), second read: UPTIME_MS; without a counter the call returns here
now_load_uptime(c) ==
    /\ UNCHANGED notTime
    /\ Runs(c)
    /\ nowPc[c].pc = "counter"
    /\ IF nowPc[c].counter # NoCounter
       THEN /\ nowPc' = [nowPc EXCEPT ![c].pc = "uptime", ![c].now = UPTIME_MS]
            /\ timeEvent' = Step
            /\ UNCHANGED maxReturned
       ELSE LET r == now_result(NoCounter, UPTIME_MS, 0)
            IN  /\ nowPc' = [nowPc EXCEPT ![c].pc = "idle"]
                /\ timeEvent' = [ev |-> "now", cpu |-> c, result |-> r,
                                 floor |-> nowPc[c].floor]
                /\ maxReturned' = Max(maxReturned, r)
    /\ UNCHANGED <<hpetCounter, UPTIME_MS, LAST_HPET, tickPc, CLOCK_TICKS, timerIrqs>>

\* now(), third read: LAST_HPET; the call returns the interpolated time
now_load_last(c) ==
    /\ UNCHANGED notTime
    /\ Runs(c)
    /\ nowPc[c].pc = "uptime"
    /\ LET r == now_result(nowPc[c].counter, nowPc[c].now, LAST_HPET)
       IN  /\ nowPc' = [nowPc EXCEPT ![c].pc = "idle"]
           /\ timeEvent' = [ev |-> "now", cpu |-> c, result |-> r,
                            floor |-> nowPc[c].floor]
           /\ maxReturned' = Max(maxReturned, r)
    /\ UNCHANGED <<hpetCounter, UPTIME_MS, LAST_HPET, tickPc, CLOCK_TICKS, timerIrqs>>

TimeInit ==
    /\ hpetCounter = 0
    /\ UPTIME_MS = 0
    /\ LAST_HPET = 0
    /\ tickPc = "idle"
    /\ nowPc = [c \in CPUS |-> [pc |-> "idle", counter |-> 0, now |-> 0, floor |-> 0]]
    /\ maxReturned = 0
    /\ timeEvent = Step
    /\ CLOCK_TICKS = 0
    /\ timerIrqs = [c \in CPUS |-> 0]

TimeNext ==
    \/ hpet_count
    \/ \E c \in CPUS : apic_timer_interrupt_handler(c)
    \/ on_tick_add
    \/ on_tick_store
    \/ \E c \in CPUS : now_get_counter(c)
    \/ \E c \in CPUS : now_load_uptime(c)
    \/ \E c \in CPUS : now_load_last(c)

-----------------------------------------------------------------------------
(* The executor: per-core schedulers, the injector, the panic-catching adapter *)

MAX_CORES == 32
MAX_STOLEN_PER_TICK == 256
\* cfg!(feature = "work-stealing")
WorkStealing == TRUE
\* the model's stand-in for 2^64, the modulus of an AtomicUsize
UsizeMod == 2^16

NoId == -1

Tasks == 1..NumTasks

\* what one poll of a future does
PollOutcomes == {"ready", "pending", "panic"}

Min(a, b) == IF a <= b THEN a ELSE b

\* spawn_n(scheduler, n) moves the n oldest tasks of a queue: the tasks taken
\* and the queue that remains
Taken(q, n) == SubSeq(q, 1, n)
Remaining_keep(q, n) == q
Remaining(q, n) == SubSeq(q, n + 1, Len(q))

\* binding the tasks of a sequence to the scheduler of core c
Rebind(st, moved, c) ==
    [t \in Tasks |->
        IF \E i \in DOMAIN moved : moved[i] = t THEN [st[t] EXCEPT !.home = c] ELSE st[t]]

\* panic::late_init
late_init ==
    /\ UNCHANGED notExec
    /\ ~FULL
    /\ FULL' = TRUE
    /\ execEvent' = [ev |-> "late_init"]
    /\ UNCHANGED <<PANIC_COUNT, initialized, execId, injector, runq, coreSt, taskSt,
                   joinOut, payloads>>

\* Executor::new on core c: RUNTIME.new_scheduler
Executor_new(c) ==
    /\ UNCHANGED notExec
    /\ coreSt[c].st = "off"
    /\ initialized < MAX_CORES
    /\ execId' = [execId EXCEPT ![c] = initialized]
    /\ initialized' = initialized + 1
    /\ coreSt' = [coreSt EXCEPT ![c].st = "created"]
    /\ execEvent' = [ev |-> "new", core |-> c]
    /\ UNCHANGED <<FULL, PANIC_COUNT, injector, runq, taskSt, joinOut, payloads>>

\* Executor::run up to its loop: running is set, SCHEDULER is Some
Executor_run(c) ==
    /\ UNCHANGED notExec
    /\ coreSt[c].st = "created"
    /\ coreSt' = [coreSt EXCEPT ![c].st = "run"]
    /\ execEvent' = [ev |-> "run", core |-> c]
    /\ UNCHANGED <<FULL, PANIC_COUNT, initialized, execId, injector, runq, taskSt,
                   joinOut, payloads>>

\* spawn(future) called on core c, before its executor runs or from inside a
\* task: the local scheduler if SCHEDULER is Some, else the injector
spawn(c, t) ==
    /\ UNCHANGED notExec
    /\ taskSt[t].st = "new"
    /\ coreSt[c].st \in {"off", "created", "poll"}
    /\ IF coreSt[c].st = "poll"
       THEN /\ runq' = [runq EXCEPT ![c] = Append(@, t)]
            /\ taskSt' = [taskSt EXCEPT ![t] = [st |-> "queued", home |-> c]]
            /\ UNCHANGED injector
       ELSE /\ injector' = Append(injector, t)
            /\ taskSt' = [taskSt EXCEPT ![t] = [st |-> "queued", home |-> NoCpu]]
            /\ UNCHANGED runq
    /\ execEvent' = [ev |-> "spawn", core |-> c, task |-> t]
    /\ UNCHANGED <<FULL, PANIC_COUNT, initialized, execId, coreSt, joinOut, payloads>>

\* scheduler.tick(): the oldest task of the run queue is taken to be polled
poll_begin(c) ==
    /\ UNCHANGED notExec
    /\ coreSt[c].st = "run"
    /\ runq[c] # << >>
    /\ LET t == Head(runq[c])
       IN  /\ runq' = [runq EXCEPT ![c] = Tail(@)]
           /\ coreSt' = [coreSt EXCEPT ![c] = [st |-> "poll", task |-> t]]
           /\ taskSt' = [taskSt EXCEPT ![t] = [st |-> "polling", home |-> c]]
           /\ execEvent' = [ev |-> "poll_begin", core |-> c, task |-> t]
    /\ UNCHANGED <<FULL, PANIC_COUNT, initialized, execId, injector, joinOut, payloads>>

\* CatchUnwind::poll returns.  A panic of the future first runs the panic
\* handler: it halts the core if FULL is unset or PANIC_COUNT was non-zero,
\* otherwise it unwinds with a PanicData box to catch_unwind, which makes the
\* poll Ready(Err(box)).
poll_end(c, outcome) ==
    /\ UNCHANGED notExec
    /\ coreSt[c].st = "poll"
    /\ LET t == coreSt[c].task
           halts == outcome = "panic" /\ (~FULL \/ PANIC_COUNT[c] > 0)
           out == IF outcome = "ready" THEN "Ok" ELSE "Err"
       IN  /\ PANIC_COUNT' =
                 IF outcome = "panic" /\ FULL
                 THEN [PANIC_COUNT EXCEPT ![c] = (@ + 1) % UsizeMod]
                 ELSE PANIC_COUNT
           /\ IF halts
              THEN /\ coreSt' = [coreSt EXCEPT ![c].st = "halted"]
                   /\ UNCHANGED <<taskSt, joinOut, payloads>>
              ELSE IF outcome = "pending"
              THEN /\ coreSt' = [coreSt EXCEPT ![c] = [st |-> "run", task |-> 0]]
                   /\ taskSt' = [taskSt EXCEPT ![t].st = "waiting"]
                   /\ UNCHANGED <<joinOut, payloads>>
              ELSE /\ coreSt' = [coreSt EXCEPT ![c] = [st |-> "run", task |-> 0]]
                   /\ taskSt' = [taskSt EXCEPT ![t].st = "complete"]
                   /\ joinOut' = [joinOut EXCEPT ![t] = Append(@, out)]
                   /\ payloads' = IF outcome = "panic"
                                  THEN payloads \cup {[task |-> t, core |-> c]}
                                  ELSE payloads
           /\ execEvent' = [ev |-> "poll_end", core |-> c, task |-> t,
                            outcome |-> outcome, full |-> FULL, halted |-> halts]
    /\ UNCHANGED <<FULL, initialized, execId, injector, runq>>

\* the waker of a waiting task: the task goes back to the scheduler it is
\* bound to
wake(t) ==
    /\ UNCHANGED notExec
    /\ taskSt[t].st = "waiting"
    /\ runq' = [runq EXCEPT ![taskSt[t].home] = Append(@, t)]
    /\ taskSt' = [taskSt EXCEPT ![t].st = "queued"]
    /\ execEvent' = [ev |-> "wake", task |-> t]
    /\ UNCHANGED <<FULL, PANIC_COUNT, initialized, execId, injector, coreSt, joinOut,
                   payloads>>

\* PanicData::drop, on the core that drops the Err output of a join handle
PanicData_drop(c, p) ==
    /\ UNCHANGED notExec
    /\ coreSt[c].st # "halted"
    /\ p \in payloads
    /\ payloads' = payloads \ {p}
    /\ PANIC_COUNT' = [PANIC_COUNT EXCEPT ![c] = (@ + UsizeMod - 1) % UsizeMod]
    /\ execEvent' = [ev |-> "payload_dropped", core |-> c, task |-> p.task]
    /\ UNCHANGED <<FULL, initialized, execId, injector, runq, coreSt, taskSt, joinOut>>

\* Executor::try_steal after a tick that left nothing to run: the injector
\* first, otherwise half of the queue of a victim picked at random
try_steal(c) ==
    /\ UNCHANGED notExec
    /\ coreSt[c].st = "run"
    /\ runq[c] = << >>
    /\ IF injector # << >>
       THEN LET n == Min(Len(injector), MAX_STOLEN_PER_TICK)
            IN  /\ runq' = [runq EXCEPT ![c] = Taken(injector, n)]
                /\ injector' = Remaining(injector, n)
                /\ taskSt' = Rebind(taskSt, Taken(injector, n), c)
                /\ execEvent' = [ev |-> "steal", core |-> c, from |-> NoCpu, n |-> n]
       ELSE /\ WorkStealing
            /\ initialized > 1
            /\ \E v \in CPUS :
                 /\ v # c
                 /\ execId[v] # NoId
                 /\ runq[v] # << >>
                 /\ coreSt[v].st # "poll"
                 /\ LET n == Min(Len(runq[v]) \div 2, MAX_STOLEN_PER_TICK)
                    IN  /\ runq' = [runq EXCEPT ![c] = Taken(runq[v], n),
                                                ![v] = Remaining(runq[v], n)]
                        /\ taskSt' = Rebind(taskSt, Taken(runq[v], n), c)
                        /\ execEvent' = [ev |-> "steal", core |-> c, from |-> v, n |-> n]
            /\ UNCHANGED injector
    /\ UNCHANGED <<FULL, PANIC_COUNT, initialized, execId, coreSt, joinOut, payloads>>

ExecInit ==
    /\ FULL = FALSE
    /\ PANIC_COUNT = [c \in CPUS |-> 0]
    /\ initialized = 0
    /\ execId = [c \in CPUS |-> NoId]
    /\ injector = << >>
    /\ runq = [c \in CPUS |-> << >>]
    /\ coreSt = [c \in CPUS |-> [st |-> "off", task |-> 0]]
    /\ taskSt = [t \in Tasks |-> [st |-> "new", home |-> NoCpu]]
    /\ joinOut = [t \in Tasks |-> << >>]
    /\ payloads = {}
    /\ execEvent = Step

ExecNext ==
    \/ late_init
    \/ \E c \in CPUS : Executor_new(c)
    \/ \E c \in CPUS : Executor_run(c)
    \/ \E c \in CPUS, t \in Tasks : spawn(c, t)
    \/ \E c \in CPUS : poll_begin(c)
    \/ \E c \in CPUS, o \in PollOutcomes : poll_end(c, o)
    \/ \E t \in Tasks : wake(t)
    \/ \E c \in CPUS, p \in payloads : PanicData_drop(c, p)
    \/ \E c \in CPUS : try_steal(c)

-----------------------------------------------------------------------------
(* The frame allocator: a usable-range iterator and a LIFO free list whose
   nodes live in a bump arena *)

\* StackAllocator::<2048>
ARENA_SIZE == 2048
\* size_of::<FreePhysFrame>(): a PhysFrame and a pointer
NodeSize == 16
\* the boxed iterator BootInfoFrameAllocator::init puts into the arena first:
\* a slice iterator and two Option<StepBy<Range<u64>>>
IterBoxSize == 80

\* StackAllocator::allocate: Err when current + size >= SIZE
StackAllocator_fits(current, size) == ~(current + size >= ARENA_SIZE)

\* deallocate_frame links the new node in front of the list
FreePush_tail(list, f) == Append(list, f)
FreePush(list, f) == <<f>> \o list

RemoveFirst(q, f) ==
    LET i == CHOOSE j \in DOMAIN q : q[j] = f /\ \A k \in DOMAIN q : q[k] = f => j <= k
    IN  SubSeq(q, 1, i - 1) \o SubSeq(q, i + 1, Len(q))

\* FrameAllocator::allocate_frame: the head of free_frames if there is one,
\* else the next frame of the iterator, else None (0)
allocate_frame ==
    /\ UNCHANGED notFrame
    /\ ~framePanic
    /\ IF free_frames # << >>
       THEN LET f == Head(free_frames)
            IN  /\ free_frames' = Tail(free_frames)
                /\ liveFrames' = liveFrames \cup {f}
                /\ freedOrder' = RemoveFirst(freedOrder, f)
                /\ frameEvent' = [ev |-> "allocate", frame |-> f,
                                  wasLive |-> f \in liveFrames, freed |-> freedOrder]
                /\ UNCHANGED FRAME_ALLOCATOR
       ELSE IF FRAME_ALLOCATOR < NumFrames
       THEN LET f == FRAME_ALLOCATOR + 1
            IN  /\ FRAME_ALLOCATOR' = f
                /\ liveFrames' = liveFrames \cup {f}
                /\ frameEvent' = [ev |-> "allocate", frame |-> f,
                                  wasLive |-> f \in liveFrames, freed |-> freedOrder]
                /\ UNCHANGED <<free_frames, freedOrder>>
       ELSE /\ frameEvent' = [ev |-> "allocate", frame |-> 0, wasLive |-> FALSE,
                              freed |-> freedOrder]
            /\ UNCHANGED <<FRAME_ALLOCATOR, free_frames, liveFrames, freedOrder>>
    /\ UNCHANGED <<arenaCurrent, framePanic>>

\* BootInfoFrameAllocator::deallocate_frame(frame) for a live frame: a node
\* from FRAME_ALLOCATOR_ALLOCATOR.own, which unwraps the arena's allocate
deallocate_frame(f) ==
    /\ UNCHANGED notFrame
    /\ ~framePanic
    /\ f \in liveFrames
    /\ IF StackAllocator_fits(arenaCurrent, NodeSize)
       THEN /\ arenaCurrent' = arenaCurrent + NodeSize
            /\ free_frames' = FreePush(free_frames, f)
            /\ liveFrames' = liveFrames \ {f}
            /\ freedOrder' = Append(freedOrder, f)
            /\ frameEvent' = [ev |-> "deallocate", frame |-> f]
            /\ UNCHANGED framePanic
       ELSE /\ framePanic' = TRUE
            /\ frameEvent' = [ev |-> "deallocate_panic", frame |-> f]
            /\ UNCHANGED <<arenaCurrent, free_frames, liveFrames, freedOrder>>
    /\ UNCHANGED FRAME_ALLOCATOR

FrameInit ==
    /\ free_frames = << >>
    /\ arenaCurrent = IterBoxSize
    /\ liveFrames = {}
    /\ freedOrder = << >>
    /\ frameEvent = Step
    /\ framePanic = FALSE

FrameNext ==
    \/ allocate_frame
    \/ \E f \in 1..NumFrames : deallocate_frame(f)

-----------------------------------------------------------------------------
(* map_address: mapping device memory into the high half *)

\* the region handed to map_pages_from, as the low 48 bits of the addresses:
\* 0xFFFF_8000_0000_0000 -> 8 * 2^44, and the page containing
\* 0xFFFF_FFFF_FFFF_FFFF, which a PageRange excludes
REGION_START == 8 * AddrUnit
REGION_END == 16 * AddrUnit - PAGE_SIZE

\* the page table memory::init adopts from the boot loader: the direct map of
\* physical memory starts at the region's second page (physical page 0 is
\* left unmapped), so the region begins with one free page before a mapped one
BootMap == (REGION_START + PAGE_SIZE) :> PAGE_SIZE

\* the physical addresses and sizes of the registers the drivers map
PhysInputs == { 5 * PAGE_SIZE, 5 * PAGE_SIZE + 4088 }
SizeInputs == { 8, PAGE_SIZE, PAGE_SIZE + 8 }

\* PhysAddr::align_down(Size4KiB::SIZE)
align_down(a) == a - (a % PAGE_SIZE)

\* Bytes::new(end_frame_addr - start_frame_addr + 1).as_num_of_pages()
NumPages(start, object_size) ==
    LET bytes == align_down(start + object_size) - align_down(start) + 1
    IN  (bytes + PAGE_SIZE - 1) \div PAGE_SIZE

NoAddr == -1

\* memory::translate_addr on a high-half address; NoAddr stands for None
Translate(va) ==
    IF PageOf(va) \in DOMAIN kernelMap
    THEN kernelMap[PageOf(va)] + (va % PAGE_SIZE)
    ELSE NoAddr

\* available(addr)
available(addr) == Translate(addr) = NoAddr /\ addr # NULL

\* every page of the loop mapped to the first frame
FrameAt_first(start_frame_addr, i) == start_frame_addr

\* the frame of the loop's i-th page
FrameAt(start_frame_addr, i) == start_frame_addr + PAGE_SIZE * i

\* the loop of map_pages_from from its i-th page on, over the page table m
\* with tables t and fa frames handed out: map_to fails on a page that is
\* already mapped and when a missing page table finds no frame
RECURSIVE MapLoop(_, _, _, _, _)
MapLoop(i, pc, m, t, fa) ==
    IF i = pc.num_pages
    THEN [ok |-> "Ok", map |-> m, tables |-> t, frames |-> fa]
    ELSE LET page == PageOf(pc.virt + PAGE_SIZE * i)
             frame == FrameAt(align_down(pc.phys), i)
             need == IF TableKey(page) \in t THEN 0 ELSE TableFrames
         IN  IF page \in DOMAIN m
             THEN [ok |-> "PageAlreadyMapped", map |-> m, tables |-> t, frames |-> fa]
             ELSE IF fa + need > NumFrames
             THEN [ok |-> "FrameAllocationFailed", map |-> m, tables |-> t,
                   frames |-> NumFrames]
             ELSE MapLoop(i + 1, pc, (page :> frame) @@ m, t \cup {TableKey(page)},
                          fa + need)

\* map_address(phys, size) up to the call of search_free_addr_from
map_address(c, phys, size) ==
    /\ ~mapPanic
    /\ UNCHANGED notMap
    /\ mapPc[c] = Idle
    /\ mapCalls < MaxMaps
    /\ mapCalls' = mapCalls + 1
    /\ mapPc' = [mapPc EXCEPT ![c] =
                    [op |-> "search", phys |-> phys, size |-> size,
                     num_pages |-> NumPages(phys, size),
                     page |-> REGION_START, cnt |-> 0, start |-> NoAddr,
                     virt |-> NoAddr, before |-> kernelMap]]
    /\ mapEvent' = Step
    /\ UNCHANGED <<kernelMap, kernelTables, FRAME_ALLOCATOR, mapPanic>>

\* one iteration of the loop of search_free_addr_from (available locks MAPPER
\* for the one page); past the region's end the result is None and the expect
\* in map_pages_from panics
search_free_addr_from(c) ==
    /\ ~mapPanic
    /\ UNCHANGED notMap
    /\ mapPc[c].op = "search"
    /\ mapperLock = NoCpu
    /\ LET pc == mapPc[c]
       IN  IF pc.page >= REGION_END
           THEN /\ mapPanic' = TRUE
                /\ mapEvent' = [ev |-> "panic", cpu |-> c, err |-> "OOM"]
                /\ UNCHANGED mapPc
           ELSE /\ UNCHANGED mapPanic
                /\ mapEvent' = Step
                /\ IF available(pc.page)
                   THEN LET start == IF pc.start = NoAddr THEN pc.page ELSE pc.start
                        IN  IF pc.cnt + 1 >= pc.num_pages
                            THEN mapPc' = [mapPc EXCEPT ![c].op = "found",
                                                        ![c].start = start,
                                                        ![c].cnt = pc.cnt + 1,
                                                        ![c].virt = start]
                            ELSE mapPc' = [mapPc EXCEPT ![c].start = start,
                                                        ![c].cnt = pc.cnt + 1,
                                                        ![c].page = pc.page + PAGE_SIZE]
                   ELSE mapPc' = [mapPc EXCEPT ![c].start = NoAddr,
                                               ![c].cnt = 0,
                                               ![c].page = pc.page + PAGE_SIZE]
    /\ UNCHANGED <<kernelMap, kernelTables, FRAME_ALLOCATOR, mapCalls>>

\* the rest of map_pages_from: MAPPER and FRAME_ALLOCATOR are locked, every
\* page is mapped with map_to(..).unwrap(), and virt + page_offset is returned
map_pages_from(c) ==
    /\ ~mapPanic
    /\ UNCHANGED notMap
    /\ mapPc[c].op = "found"
    /\ mapperLock = NoCpu
    /\ frameLock = NoCpu
    /\ LET pc == mapPc[c]
           r == MapLoop(0, pc, kernelMap, kernelTables, FRAME_ALLOCATOR)
       IN  /\ kernelMap' = r.map
           /\ kernelTables' = r.tables
           /\ FRAME_ALLOCATOR' = r.frames
           /\ IF r.ok = "Ok"
              THEN /\ mapPc' = [mapPc EXCEPT ![c] = Idle]
                   /\ mapEvent' = [ev |-> "mapped", cpu |-> c, phys |-> pc.phys,
                                   size |-> pc.size, num_pages |-> pc.num_pages,
                                   va |-> pc.virt + (pc.phys % PAGE_SIZE),
                                   before |-> pc.before]
                   /\ UNCHANGED mapPanic
              ELSE /\ mapPanic' = TRUE
                   /\ mapEvent' = [ev |-> "panic", cpu |-> c, err |-> r.ok]
                   /\ UNCHANGED mapPc
    /\ UNCHANGED mapCalls

MapInit ==
    /\ kernelMap = BootMap
    /\ kernelTables = {TableKey(REGION_START)}
    /\ mapPc = [c \in CPUS |-> Idle]
    /\ mapCalls = 0
    /\ mapEvent = Step
    /\ mapPanic = FALSE

MapNext ==
    \/ \E c \in CPUS, phys \in PhysInputs, size \in SizeInputs : map_address(c, phys, size)
    \/ \E c \in CPUS : search_free_addr_from(c)
    \/ \E c \in CPUS : map_pages_from(c)

-----------------------------------------------------------------------------
(* Boot of the BSP and bring-up of the application processors *)

\* the CPUs of the boot loader's SMP response, by processor id (which is also
\* their position in the response); the BSP is the one with bsp_lapic_id
BootCpus == {0, 1, 2}
BSP == 0

STACK_SIZE == 4096

\* the stack the boot loader gave the BSP, on which the BSP keeps running
BspStackTop == 12 * AddrUnit

\* where the compiler may place the local variable `stack` of each of the three
\* blocks of allocate_for_ap in that function's frame on the BSP's stack
LocalSlots == { BspStackTop - 512, BspStackTop - 528 }

\* the heap buffer of the k-th vec![0u8; STACK_SIZE] of the run
StackBuffer(k) == HEAP_START + k * STACK_SIZE

\* start_smp, in program order
StartSteps == << "init_sse", "set_pid", "gdt_init_smp", "interrupts_init_smp",
                "local_init", "ap_main" >>

\* init_smp's second loop writes a goto address to every CPU
GotoTarget_all(c) == TRUE

\* init_smp's second loop: the CPU with the BSP's lapic id is skipped
GotoTarget(c) == c # BSP

\* INTERRUPT_HANDLERS[gsi] = h inside set_interrupt, as the boot code calls it
TableWrite(c, gsi) ==
    [ev |-> "table_write", cpu |-> c, gsi |-> gsi, enabled |-> interruptsOn[c]]

\* interrupts::init, timer_frequency_hz without a frequency from cpuid: the
\* first use of PIT registers on_tick for GSI 0
pit_register ==
    /\ ~bootPanic
    /\ UNCHANGED notBoot
    /\ bspPc.op = "init_timing"
    /\ bspPc' = [bspPc EXCEPT !.op = "enable"]
    /\ bootEvent' = TableWrite(BSP, 0)
    /\ UNCHANGED <<interruptsOn, infos, AP_INFO, goto_address, apDone, apGdt, bootPanic>>

\* the end of interrupts::init: interrupts::enable()
interrupts_init ==
    /\ ~bootPanic
    /\ UNCHANGED notBoot
    /\ bspPc.op \in {"init_timing", "enable"}
    /\ interruptsOn' = [interruptsOn EXCEPT ![BSP] = TRUE]
    /\ bspPc' = [bspPc EXCEPT !.op = "late_init"]
    /\ bootEvent' = Step
    /\ UNCHANGED <<infos, AP_INFO, goto_address, apDone, apGdt, bootPanic>>

\* acpi::late_init: set_interrupt_static(fadt.sci_interrupt, ..)
acpi_late_init(sci) ==
    /\ ~bootPanic
    /\ UNCHANGED notBoot
    /\ bspPc.op = "late_init"
    /\ bspPc' = [bspPc EXCEPT !.op = "alloc"]
    /\ bootEvent' = TableWrite(BSP, sci)
    /\ UNCHANGED <<interruptsOn, infos, AP_INFO, goto_address, apDone, apGdt, bootPanic>>

\* init_smp, one round of the map over smp.cpus(): gdt::allocate_for_ap().
\* Each of its three blocks allocates a buffer and stores
\* VirtAddr::from_ptr(&stack) + STACK_SIZE, where stack is the local variable
\* that holds the reference to the buffer; an allocation that fails ends in
\* the alloc_error_handler's panic
allocate_for_ap(ok, slots) ==
    /\ ~bootPanic
    /\ UNCHANGED notBoot
    /\ bspPc.op = "alloc"
    /\ IF ~ok
       THEN /\ bootPanic' = TRUE
            /\ bootEvent' = Step
            /\ UNCHANGED <<bspPc, infos>>
       ELSE LET i == Len(infos)
                info == [gdt |-> i + 1,
                         bufs |-> [j \in 1..3 |-> StackBuffer(3 * i + j - 1)],
                         stacks |-> [j \in 1..3 |-> slots[j] + STACK_SIZE]]
            IN  /\ infos' = Append(infos, info)
                /\ bspPc' = [bspPc EXCEPT !.op =
                                 IF i + 1 = Cardinality(BootCpus) THEN "publish" ELSE "alloc"]
                /\ bootEvent' = [ev |-> "allocated", info |-> info]
                /\ UNCHANGED bootPanic
    /\ UNCHANGED <<interruptsOn, AP_INFO, goto_address, apDone, apGdt>>

\* init_smp: AP_INFO = Some(infos)
publish_ap_info ==
    /\ ~bootPanic
    /\ UNCHANGED notBoot
    /\ bspPc.op = "publish"
    /\ AP_INFO' = [some |-> TRUE, v |-> infos]
    /\ bspPc' = [op |-> "goto", i |-> 0]
    /\ bootEvent' = Step
    /\ UNCHANGED <<interruptsOn, infos, goto_address, apDone, apGdt, bootPanic>>

\* init_smp, one round of the second loop: the BSP is skipped, every other
\* CPU gets goto_address = ap_entry
write_goto ==
    /\ ~bootPanic
    /\ UNCHANGED notBoot
    /\ bspPc.op = "goto"
    /\ goto_address' = IF GotoTarget(bspPc.i) THEN goto_address \cup {bspPc.i}
                       ELSE goto_address
    /\ bspPc' = IF bspPc.i + 1 = Cardinality(BootCpus) THEN [op |-> "done", i |-> 0]
                ELSE [bspPc EXCEPT !.i = bspPc.i + 1]
    /\ bootEvent' = Step
    /\ UNCHANGED <<interruptsOn, infos, AP_INFO, apDone, apGdt, bootPanic>>

\* the next step of start_smp on a CPU that was given a goto address:
\* gdt::init_smp takes AP_INFO[processor_id].gdt (both unwraps can panic) and
\* interrupts::init_smp ends with interrupts::enable()
start_smp(c) ==
    /\ ~bootPanic
    /\ UNCHANGED notBoot
    /\ c \in goto_address
    /\ Len(apDone[c]) < Len(StartSteps)
    /\ LET step == StartSteps[Len(apDone[c]) + 1]
           taken == step = "gdt_init_smp"
       IN  IF taken /\ (~AP_INFO.some \/ AP_INFO.v[c + 1].gdt = 0)
           THEN /\ bootPanic' = TRUE
                /\ UNCHANGED <<interruptsOn, AP_INFO, apDone, apGdt>>
           ELSE /\ apDone' = [apDone EXCEPT ![c] = Append(@, step)]
                /\ apGdt' = IF taken THEN [apGdt EXCEPT ![c] = AP_INFO.v[c + 1].gdt]
                            ELSE apGdt
                /\ AP_INFO' = IF taken THEN [AP_INFO EXCEPT !.v[c + 1].gdt = 0]
                              ELSE AP_INFO
                /\ interruptsOn' = IF step = "interrupts_init_smp"
                                   THEN [interruptsOn EXCEPT ![c] = TRUE]
                                   ELSE interruptsOn
                /\ UNCHANGED bootPanic
    /\ bootEvent' = Step
    /\ UNCHANGED <<bspPc, infos, goto_address>>

BootInit ==
    /\ interruptsOn = [c \in BootCpus |-> FALSE]
    /\ bspPc = [op |-> "init_timing", i |-> 0]
    /\ infos = << >>
    /\ AP_INFO = [some |-> FALSE, v |-> << >>]
    /\ goto_address = {}
    /\ apDone = [c \in BootCpus |-> << >>]
    /\ apGdt = [c \in BootCpus |-> 0]
    /\ bootEvent = Step
    /\ bootPanic = FALSE

BootNext ==
    \/ pit_register
    \/ interrupts_init
    \/ \E sci \in {9} : acpi_late_init(sci)
    \/ \E ok \in BOOLEAN, slots \in [1..3 -> LocalSlots] : allocate_for_ap(ok, slots)
    \/ publish_ap_info
    \/ write_goto
    \/ \E c \in BootCpus : start_smp(c)

-----------------------------------------------------------------------------
-----------------------------------------------------------------------------
(* PCI: the scan of a function's BARs, and the setup of the drivers *)

\* what EndpointHeader::bar decodes from a BAR register
BarKinds == {"None", "Io", "Memory32", "Memory64"}

\* the six BAR registers of an endpoint: a 64-bit BAR takes two registers, the
\* second of which (the upper half of an address below 4 GiB) reads as zero
DeviceBars ==
    {k \in [0..5 -> BarKinds] :
        /\ k[5] # "Memory64"
        /\ \A i \in 0..4 : k[i] = "Memory64" => k[i + 1] = "None"}

\* the loop  for i in 0..6  of scan_function from slot i on: the bars array
\* and, as a ghost, the slots bar() was called for
RECURSIVE BarLoop(_, _, _, _, _)
BarLoop(i, skip_next, bars, read, regs) ==
    IF i = 6 THEN [bars |-> bars, read |-> read]
    ELSE IF skip_next
    THEN \* continue
         BarLoop(i + 1, skip_next, bars, read, regs)
    ELSE BarLoop(i + 1, regs[i] = "Memory64", [bars EXCEPT ![i] = regs[i]],
                 read \cup {i}, regs)

\* scan_function of an endpoint whose BAR registers are regs (the model
\* scans one function, before the drivers start)
scan_function ==
    /\ UNCHANGED notPci
    /\ drvPc = "start"
    /\ ~pciDevice.scanned
    /\ \E regs \in DeviceBars :
          LET r == BarLoop(0, FALSE, [i \in 0..5 |-> "None"], {}, regs)
          IN  pciDevice' = [scanned |-> TRUE, regs |-> regs, bars |-> r.bars,
                            read |-> r.read]
    /\ UNCHANGED <<drvPc, drvSeen, drvEvent>>

\* the devices a driver of DRIVER_INITS may be asked about
DeviceKinds == {"e1000", "virtio_net", "virtio_sock", "other"}

\* what can go wrong while a driver sets its device up: nothing, the device
\* cannot be set up (no usable BAR, no transport), set_interrupt_msi is None
SetupFaults == {"none", "setup_err", "msi_none"}

\* e1000::init: E1000::new(header).unwrap()
e1000_init(kind, fault) ==
    IF kind # "e1000" THEN "false"
    ELSE IF fault = "setup_err" THEN "panic"
    ELSE "true"

\* virtio::net::init: create_transport(header)?, Device::new(..)?, and
\* Wrapper::new with set_interrupt_msi(..).unwrap()
virtio_net_init(kind, fault) ==
    IF kind # "virtio_net" THEN "false"
    ELSE IF fault = "setup_err" THEN "err"
    ELSE IF fault = "msi_none" THEN "panic"
    ELSE "true"

\* virtio::sock::init: create_transport(header)?, Device::new(transport)?
virtio_sock_init(kind, fault) ==
    IF kind # "virtio_sock" THEN "false"
    ELSE IF fault = "setup_err" THEN "err"
    ELSE "true"

DRIVER_INITS(j, kind, fault) ==
    CASE j = 1 -> e1000_init(kind, fault)
      [] j = 2 -> virtio_net_init(kind, fault)
      [] j = 3 -> virtio_sock_init(kind, fault)

\* for init in DRIVER_INITS, from driver j on: "mapped" after Ok(true),
\* "failed" after an Err was logged, "panic", "none" when no driver took it
RECURSIVE DriverLoop(_, _, _)
DriverLoop(j, kind, fault) ==
    IF j > 3 THEN "none"
    ELSE LET r == DRIVER_INITS(j, kind, fault)
         IN  CASE r = "true" -> "mapped"
               [] r = "err" -> "failed"
               [] r = "panic" -> "panic"
               [] r = "false" -> DriverLoop(j + 1, kind, fault)

\* drivers::init, first statement: i8042::init with DRIVER.lock().init().unwrap()
i8042_init(ok) ==
    /\ UNCHANGED notPci
    /\ drvPc = "start"
    /\ drvPc' = IF ok THEN "pci" ELSE "panicked"
    /\ drvEvent' = [ev |-> "i8042", kind |-> "i8042",
                    fault |-> IF ok THEN "none" ELSE "setup_err",
                    result |-> IF ok THEN "mapped" ELSE "panic"]
    /\ UNCHANGED <<pciDevice, drvSeen>>

\* drivers::init, one turn of the loop over the PCI devices
drivers_init(kind, fault) ==
    /\ UNCHANGED notPci
    /\ drvPc = "pci"
    /\ drvSeen < NumDevices
    /\ LET r == DriverLoop(1, kind, fault)
       IN  /\ drvPc' = IF r = "panic" THEN "panicked" ELSE "pci"
           /\ drvEvent' = [ev |-> "device", kind |-> kind, fault |-> fault,
                           result |-> r]
    /\ drvSeen' = drvSeen + 1
    /\ UNCHANGED pciDevice

PciInit ==
    /\ pciDevice = [scanned |-> FALSE, regs |-> [i \in 0..5 |-> "None"],
                    bars |-> [i \in 0..5 |-> "None"], read |-> {}]
    /\ drvPc = "start"
    /\ drvSeen = 0
    /\ drvEvent = Step

PciNext ==
    \/ scan_function
    \/ \E ok \in BOOLEAN : i8042_init(ok)
    \/ \E kind \in DeviceKinds, fault \in SetupFaults : drivers_init(kind, fault)

-----------------------------------------------------------------------------
(* The three spinlocks: heap allocator, MAPPER, FRAME_ALLOCATOR *)

\* two pages of the lazily mapped heap and two of the device region
LkHeapPages == {"h1", "h2"}
LkDevicePages == <<"d1", "d2">>

LkIdle == [op |-> "idle", page |-> "", inAlloc |-> FALSE]

\* the lock a CPU is spinning on, "" if it is not about to take one
Wants(c) ==
    CASE lkPc[c].op \in {"alloc_lock", "panic_alloc"} -> "heap"
      [] lkPc[c].op \in {"fault", "map_search", "map_lock"} -> "mapper"
      [] lkPc[c].op \in {"fault_frames", "map_frames"} -> "frames"
      [] OTHER -> ""

\* where a panic leaves the CPU: before panic::late_init the handler halts
\* at once; after it the handler first allocates (Vec::push of the stack
\* frames) and so needs the heap lock
PanicTo(pc, full) == [pc EXCEPT !.op = IF full THEN "panic_alloc" ELSE "halted"]

\* a CPU calls alloc or map_address
lock_call(c, op) ==
    /\ UNCHANGED notLock
    /\ lkPc[c].op = "idle"
    /\ lkPc' = [lkPc EXCEPT ![c].op = op]
    /\ UNCHANGED <<lkHolder, lkMapped, lkFrames>>

\* GlobalAlloc::alloc: self.inner.lock()
alloc_lock(c) ==
    /\ UNCHANGED notLock
    /\ lkPc[c].op = "alloc_lock"
    /\ lkHolder["heap"] = NoCpu
    /\ lkHolder' = [lkHolder EXCEPT !["heap"] = c]
    /\ lkPc' = [lkPc EXCEPT ![c].op = "alloc"]
    /\ UNCHANGED <<lkMapped, lkFrames>>

\* SlabAllocator::alloc reads (*cell).next of the cell at self.next, which
\* lies on page p; on an unmapped page the read raises a page fault and is
\* repeated when the handler returns; then alloc returns and the lock drops
alloc_cell(c, p) ==
    /\ UNCHANGED notLock
    /\ lkPc[c].op = "alloc"
    /\ lkPc[c].page \in {"", p}
    /\ IF p \in lkMapped
       THEN /\ lkHolder' = [lkHolder EXCEPT !["heap"] = NoCpu]
            /\ lkPc' = [lkPc EXCEPT ![c] = LkIdle]
       ELSE /\ lkPc' = [lkPc EXCEPT ![c] = [op |-> "fault", page |-> p, inAlloc |-> TRUE]]
            /\ UNCHANGED lkHolder
    /\ UNCHANGED <<lkMapped, lkFrames>>

\* a CPU that holds no lock touches heap page p, which is unmapped
touch_fault(c, p) ==
    /\ UNCHANGED notLock
    /\ lkPc[c].op = "idle"
    /\ p \notin lkMapped
    /\ lkPc' = [lkPc EXCEPT ![c] = [op |-> "fault", page |-> p, inAlloc |-> FALSE]]
    /\ UNCHANGED <<lkHolder, lkMapped, lkFrames>>

\* lazy_map: MAPPER.lock() and the translate_addr test; on false the guard
\* drops and page_fault_handler panics
lazy_map_lock(c) ==
    /\ UNCHANGED notLock
    /\ lkPc[c].op = "fault"
    /\ lkHolder["mapper"] = NoCpu
    /\ IF lkPc[c].page \in lkMapped
       THEN /\ \E full \in BOOLEAN : lkPc' = [lkPc EXCEPT ![c] = PanicTo(@, full)]
            /\ UNCHANGED lkHolder
       ELSE /\ lkHolder' = [lkHolder EXCEPT !["mapper"] = c]
            /\ lkPc' = [lkPc EXCEPT ![c].op = "fault_frames"]
    /\ UNCHANGED <<lkMapped, lkFrames>>

\* lazy_map: FRAME_ALLOCATOR.lock(), allocate_frame().unwrap(), map_to,
\* send_flush_tlb, fill; both guards drop at the return
lazy_map_frames(c) ==
    /\ UNCHANGED notLock
    /\ lkPc[c].op = "fault_frames"
    /\ lkHolder["frames"] = NoCpu
    /\ IF lkFrames = 0
       THEN /\ lkHolder' = [lkHolder EXCEPT !["frames"] = c]
            /\ \E full \in BOOLEAN : lkPc' = [lkPc EXCEPT ![c] = PanicTo(@, full)]
            /\ UNCHANGED <<lkMapped, lkFrames>>
       ELSE /\ lkFrames' = lkFrames - 1
            /\ lkMapped' = lkMapped \cup {lkPc[c].page}
            /\ lkHolder' = [lkHolder EXCEPT !["mapper"] = NoCpu]
            /\ lkPc' = [lkPc EXCEPT ![c] =
                            IF @.inAlloc THEN [@ EXCEPT !.op = "alloc"] ELSE LkIdle]

\* search_free_addr_from: available() locks MAPPER for each page it looks at
\* and drops it again; the search returns the first free page
available_lock(c) ==
    /\ UNCHANGED notLock
    /\ lkPc[c].op = "map_search"
    /\ lkHolder["mapper"] = NoCpu
    /\ LET free == {i \in 1..Len(LkDevicePages) : LkDevicePages[i] \notin lkMapped}
           first == CHOOSE i \in free : \A j \in free : i <= j
       IN  IF free = {}
           THEN \* expect("OOM during creating a new accessor to a register.")
                \E full \in BOOLEAN : lkPc' = [lkPc EXCEPT ![c] = PanicTo(@, full)]
           ELSE lkPc' = [lkPc EXCEPT ![c].op = "map_lock",
                                     ![c].page = LkDevicePages[first]]
    /\ UNCHANGED <<lkHolder, lkMapped, lkFrames>>

\* map_pages_from: MAPPER.lock()
map_lock(c) ==
    /\ UNCHANGED notLock
    /\ lkPc[c].op = "map_lock"
    /\ lkHolder["mapper"] = NoCpu
    /\ lkHolder' = [lkHolder EXCEPT !["mapper"] = c]
    /\ lkPc' = [lkPc EXCEPT ![c].op = "map_frames"]
    /\ UNCHANGED <<lkMapped, lkFrames>>

\* map_pages_from: FRAME_ALLOCATOR.lock() and map_to(..).unwrap(), which
\* takes need frames for page tables; both guards drop at the return
map_frames(c, need) ==
    /\ UNCHANGED notLock
    /\ lkPc[c].op = "map_frames"
    /\ lkHolder["frames"] = NoCpu
    /\ IF lkPc[c].page \in lkMapped \/ need > lkFrames
       THEN /\ lkHolder' = [lkHolder EXCEPT !["frames"] = c]
            /\ \E full \in BOOLEAN : lkPc' = [lkPc EXCEPT ![c] = PanicTo(@, full)]
            /\ UNCHANGED <<lkMapped, lkFrames>>
       ELSE /\ lkFrames' = lkFrames - need
            /\ lkMapped' = lkMapped \cup {lkPc[c].page}
            /\ lkHolder' = [lkHolder EXCEPT !["mapper"] = NoCpu]
            /\ lkPc' = [lkPc EXCEPT ![c] = LkIdle]

\* the panic handler after late_init: stack_frames.push allocates and frees
\* under the heap lock; begin_panic then unwinds, which drops the mapper and
\* frame-allocator guards of the panicking call, and the CPU halts or goes
\* back to its executor
panic_alloc(c) ==
    /\ UNCHANGED notLock
    /\ lkPc[c].op = "panic_alloc"
    /\ lkHolder["heap"] = NoCpu
    /\ lkHolder' = [l \in DOMAIN lkHolder |->
                        IF lkHolder[l] = c THEN NoCpu ELSE lkHolder[l]]
    /\ lkPc' = [lkPc EXCEPT ![c].op = "halted"]
    /\ UNCHANGED <<lkMapped, lkFrames>>

LockInit ==
    /\ lkHolder = [l \in {"heap", "mapper", "frames"} |-> NoCpu]
    /\ lkPc = [c \in CPUS |-> LkIdle]
    /\ lkMapped = {}
    /\ lkFrames = MaxLkFrames

LockNext ==
    \/ \E c \in CPUS, op \in {"alloc_lock", "map_search"} : lock_call(c, op)
    \/ \E c \in CPUS : alloc_lock(c)
    \/ \E c \in CPUS, p \in LkHeapPages : alloc_cell(c, p)
    \/ \E c \in CPUS, p \in LkHeapPages : touch_fault(c, p)
    \/ \E c \in CPUS : lazy_map_lock(c)
    \/ \E c \in CPUS : lazy_map_frames(c)
    \/ \E c \in CPUS : available_lock(c)
    \/ \E c \in CPUS : map_lock(c)
    \/ \E c \in CPUS, need \in 0..1 : map_frames(c, need)
    \/ \E c \in CPUS : panic_alloc(c)

-----------------------------------------------------------------------------
(* Interrupt entry and exit: dispatch, exceptions, end-of-interrupt, logging *)

\* the handlers of the IDT the model enters: handler!(i) of a device vector,
\* and three CPU exceptions
IsrExceptions == {"page_fault", "breakpoint", "nmi"}

\* the handlers whose body ends with epilogue!(), which writes the EOI
WritesEoi(kind) == kind \in {"irq", "page_fault", "breakpoint", "nmi"}

\* the handlers that log (warn! on an empty slot, error! in the breakpoint
\* handler) and so take LOCK of Collector::event
Logs(kind, h) == (kind = "irq" /\ h = 0) \/ kind = "breakpoint"

\* a closure dropped by the store of None to its slot is kept alive instead
FreedByClear_none(h) == {}

\* INTERRUPT_HANDLERS[gsi] = None drops the Box the slot held
FreedByClear(h) == IF h = 0 THEN {} ELSE {h}

\* set_interrupt_msi, the capability loop: the message is programmed and the
\* capability enabled
isr_msi_enable ==
    /\ UNCHANGED notIsr
    /\ isrReg = FALSE /\ isrSlot = 0 /\ ~isrSource
    /\ isrNext <= MaxClosures
    /\ isrSource' = TRUE
    /\ isrReg' = TRUE
    /\ isrEvent' = Step
    /\ UNCHANGED <<isrSlot, isrNext, isrFreed, isrStack, inService, logHolder>>

\* set_interrupt_msi, after the loop: the slot is given Dynamic(f)
isr_msi_store ==
    /\ UNCHANGED notIsr
    /\ isrReg
    /\ isrSlot' = isrNext
    /\ isrNext' = isrNext + 1
    /\ isrReg' = FALSE
    /\ isrEvent' = Step
    /\ UNCHANGED <<isrSource, isrFreed, isrStack, inService, logHolder>>

\* InterruptGuard::drop in task code of CPU c: the capability is disabled and
\* the slot set to None
guard_drop(c) ==
    /\ UNCHANGED notIsr
    /\ isrStack[c] = << >>
    /\ ~isrReg /\ isrSlot # 0
    /\ isrSource' = FALSE
    /\ isrSlot' = 0
    /\ isrFreed' = isrFreed \cup FreedByClear(isrSlot)
    /\ isrEvent' = Step
    /\ UNCHANGED <<isrReg, isrNext, isrStack, inService, logHolder>>

\* the device's interrupt is delivered to CPU c, which runs task code (inside
\* a handler the interrupt flag is clear): handler!(i) matches on the slot
handle_interrupt_enter(c) ==
    /\ UNCHANGED notIsr
    /\ isrSource
    /\ isrStack[c] = << >>
    /\ isrStack' = [isrStack EXCEPT ![c] =
                       <<[kind |-> "irq", h |-> isrSlot, logged |-> ~Logs("irq", isrSlot)]>>]
    /\ inService' = [inService EXCEPT ![c] = @ + 1]
    /\ isrEvent' = Step
    /\ UNCHANGED <<isrSlot, isrSource, isrReg, isrNext, isrFreed, logHolder>>

\* a CPU exception on CPU c: a page fault on a lazily mapped page, a
\* breakpoint, an NMI, in task code or inside another handler
exception_enter(c, kind) ==
    /\ UNCHANGED notIsr
    /\ Len(isrStack[c]) < MaxNest
    /\ isrStack' = [isrStack EXCEPT ![c] =
                       Append(@, [kind |-> kind, h |-> 0, logged |-> ~Logs(kind, 0)])]
    /\ isrEvent' = Step
    /\ UNCHANGED <<isrSlot, isrSource, isrReg, isrNext, isrFreed, inService, logHolder>>

\* warn! / error! inside the innermost handler: Collector::event takes LOCK,
\* prints and drops it
handler_log(c) ==
    /\ UNCHANGED notIsr
    /\ isrStack[c] # << >>
    /\ ~isrStack[c][Len(isrStack[c])].logged
    /\ logHolder = NoCpu
    /\ isrStack' = [isrStack EXCEPT ![c][Len(isrStack[c])].logged = TRUE]
    /\ isrEvent' = Step
    /\ UNCHANGED <<isrSlot, isrSource, isrReg, isrNext, isrFreed, inService, logHolder>>

\* the innermost handler of CPU c reaches its end: epilogue!() writes the EOI,
\* which clears the highest in-service bit of the LAPIC, and the CPU returns
handler_return(c) ==
    /\ UNCHANGED notIsr
    /\ isrStack[c] # << >>
    /\ LET top == isrStack[c][Len(isrStack[c])]
       IN  /\ top.logged
           /\ isrStack' = [isrStack EXCEPT ![c] = SubSeq(@, 1, Len(@) - 1)]
           /\ inService' = [inService EXCEPT ![c] =
                               IF WritesEoi(top.kind) /\ @ > 0 THEN @ - 1 ELSE @]
           /\ isrEvent' = [ev |-> "return", cpu |-> c, kind |-> top.kind,
                           eoi |-> WritesEoi(top.kind)]
    /\ UNCHANGED <<isrSlot, isrSource, isrReg, isrNext, isrFreed, logHolder>>

\* task code on CPU c logs (debug!, info!, ...): Collector::event takes LOCK,
\* with interrupts as they are, and drops it when the event is printed
task_log(c) ==
    /\ UNCHANGED notIsr
    /\ isrStack[c] = << >>
    /\ logHolder \in {NoCpu, c}
    /\ logHolder' = IF logHolder = NoCpu THEN c ELSE NoCpu
    /\ isrEvent' = Step
    /\ UNCHANGED <<isrSlot, isrSource, isrReg, isrNext, isrFreed, isrStack, inService>>

IsrInit ==
    /\ isrSlot = 0
    /\ isrSource = FALSE
    /\ isrReg = FALSE
    /\ isrNext = 1
    /\ isrFreed = {}
    /\ isrStack = [c \in CPUS |-> << >>]
    /\ inService = [c \in CPUS |-> 0]
    /\ logHolder = NoCpu
    /\ isrEvent = Step

IsrNext ==
    \/ isr_msi_enable
    \/ isr_msi_store
    \/ \E c \in CPUS : guard_drop(c)
    \/ \E c \in CPUS : handle_interrupt_enter(c)
    \/ \E c \in CPUS, kind \in IsrExceptions : exception_enter(c, kind)
    \/ \E c \in CPUS : handler_log(c)
    \/ \E c \in CPUS : handler_return(c)
    \/ \E c \in CPUS : task_log(c)

-----------------------------------------------------------------------------
(* The run loop of the executor: Executor::run, Executor::tick and
   Executor::try_steal step by step, with interrupts that make tasks runnable *)

\* the most tasks the model keeps runnable at once
MaxRunnable == 3

\* for _ in 0..MAX_STEAL_ATTEMPTS
MAX_STEAL_ATTEMPTS == 16

\* RUNTIME.active_cores(): every core of the model has created its executor,
\* and the id of an executor is the index of its scheduler in RUNTIME.cores
ActiveCores == Cardinality(CPUS)

\* core::cmp::min(victim.initial_task_count() / 2, MAX_STOLEN_PER_TICK)
NumSteal_all(count) == count
NumSteal(count) == Min(count \div 2, MAX_STOLEN_PER_TICK)

\* the loop of try_steal goes on while the attempts are not used up
MoreAttempts_one(attempts) == attempts < MAX_STEAL_ATTEMPTS + 1
MoreAttempts(attempts) == attempts < MAX_STEAL_ATTEMPTS

\* Executor::run: `continue` when tick() returned true, the halt otherwise
AfterTick(result) == IF result THEN "tick" ELSE "tohalt"

\* Executor::run when enable_interrupts_and_halt returns: the top of the loop
AfterWake_halt == "tohalt"
AfterWake == "tick"

\* the number of runnable tasks in the queues of the cores of S
RECURSIVE RlQueued(_)
RlQueued(S) ==
    IF S = {} THEN 0
    ELSE LET c == CHOOSE x \in S : TRUE IN rlQueue[c] + RlQueued(S \ {c})

RlTotal == rlInjector + RlQueued(CPUS)

RlAt(c, pc) == rlPc[c].pc = pc

\* Executor::tick up to its call of try_steal: scheduler.tick() polls the
\* tasks of the local queue, `again` of them wake themselves while polled;
\* has_remaining makes tick return true
Executor_tick(c, again) ==
    /\ UNCHANGED notRun
    /\ RlAt(c, "tick")
    /\ again <= Min(rlQueue[c], MAX_STOLEN_PER_TICK)
    /\ LET polled == Min(rlQueue[c], MAX_STOLEN_PER_TICK)
           left == rlQueue[c] - polled + again
       IN  /\ rlQueue' = [rlQueue EXCEPT ![c] = left]
           /\ rlPc' = [rlPc EXCEPT ![c] =
                         [pc |-> IF left > 0 THEN AfterTick(TRUE) ELSE "injector",
                          attempts |-> 0, remaining |-> left, stolen |-> 0]]
           /\ rlEvent' = [ev |-> "tick", core |-> c, from |-> NoCpu, n |-> polled,
                          had |-> rlQueue[c], attempts |-> 0, remaining |-> left]
    /\ rlSleeps' = [rlSleeps EXCEPT ![c] = 0]
    /\ UNCHANGED rlInjector

\* try_steal: RUNTIME.injector.try_steal() and spawn_n, before the loop
\* (pc "injector") and after it (pc "injector2")
try_steal_injector(c) ==
    /\ UNCHANGED notRun
    /\ RlAt(c, "injector") \/ RlAt(c, "injector2")
    /\ IF rlInjector > 0
       THEN LET n == Min(rlInjector, MAX_STOLEN_PER_TICK)
            IN  /\ rlInjector' = rlInjector - n
                /\ rlQueue' = [rlQueue EXCEPT ![c] = @ + n]
                /\ rlPc' = [rlPc EXCEPT ![c].pc = AfterTick(n > 0), ![c].stolen = n]
                /\ rlEvent' = [ev |-> "steal", core |-> c, from |-> NoCpu, n |-> n,
                               had |-> rlInjector, attempts |-> 0,
                               remaining |-> rlPc[c].remaining]
       ELSE /\ rlPc' = [rlPc EXCEPT ![c].pc =
                          IF RlAt(c, "injector") /\ WorkStealing THEN "loop"
                          ELSE IF RlAt(c, "injector") THEN "injector2"
                          ELSE AfterTick(FALSE)]
            /\ rlEvent' = [ev |-> "no_injector", core |-> c, from |-> NoCpu, n |-> 0,
                           had |-> 0, attempts |-> 0, remaining |-> 0]
            /\ UNCHANGED <<rlInjector, rlQueue>>
    /\ UNCHANGED rlSleeps

\* try_steal: one turn of the loop, victim_idx being the number the random
\* generator gives
try_steal_attempt(c, victim_idx) ==
    /\ UNCHANGED notRun
    /\ RlAt(c, "loop")
    /\ IF ~MoreAttempts(rlPc[c].attempts) \/ ActiveCores <= 1
       THEN /\ rlPc' = [rlPc EXCEPT ![c].pc = "injector2", ![c].attempts = 0]
            /\ rlEvent' = [ev |-> "loop_end", core |-> c, from |-> NoCpu, n |-> 0,
                           had |-> 0, attempts |-> rlPc[c].attempts,
                           remaining |-> rlPc[c].remaining]
            /\ UNCHANGED rlQueue
       ELSE IF victim_idx = c \/ rlQueue[victim_idx] = 0 \/ RlAt(victim_idx, "loop")
       THEN /\ rlPc' = [rlPc EXCEPT ![c].attempts = @ + 1]
            /\ rlEvent' = [ev |-> "miss", core |-> c, from |-> victim_idx, n |-> 0,
                           had |-> 0, attempts |-> rlPc[c].attempts + 1,
                           remaining |-> rlPc[c].remaining]
            /\ UNCHANGED rlQueue
       ELSE LET n == Min(NumSteal(rlQueue[victim_idx]), rlQueue[victim_idx])
            IN  /\ rlQueue' = [rlQueue EXCEPT ![c] = @ + n, ![victim_idx] = @ - n]
                /\ rlPc' = [rlPc EXCEPT ![c].pc = AfterTick(n > 0), ![c].stolen = n,
                                        ![c].attempts = 0]
                /\ rlEvent' = [ev |-> "steal", core |-> c, from |-> victim_idx, n |-> n,
                               had |-> rlQueue[victim_idx],
                               attempts |-> rlPc[c].attempts + 1,
                               remaining |-> rlPc[c].remaining]
    /\ UNCHANGED <<rlInjector, rlSleeps>>

\* Executor::run after tick() returned false: enable_interrupts_and_halt
enable_interrupts_and_halt(c) ==
    /\ UNCHANGED notRun
    /\ RlAt(c, "tohalt")
    /\ rlPc' = [rlPc EXCEPT ![c].pc = "asleep"]
    /\ rlSleeps' = [rlSleeps EXCEPT ![c] = IF rlQueue[c] > 0 THEN Min(@ + 1, 2) ELSE @]
    /\ rlEvent' = [ev |-> "halt", core |-> c, from |-> NoCpu, n |-> 0, had |-> 0,
                   attempts |-> 0, remaining |-> 0]
    /\ UNCHANGED <<rlQueue, rlInjector>>

\* an interrupt on core c, at any point of the loop: its handler wakes `woken`
\* tasks bound to the scheduler of core home; a core that sleeps in hlt or
\* mwait goes on behind the halt when the handler has returned
interrupt_on(c, home, woken) ==
    /\ UNCHANGED notRun
    /\ RlTotal + woken <= MaxRunnable
    /\ rlQueue' = [rlQueue EXCEPT ![home] = @ + woken]
    /\ rlPc' = [rlPc EXCEPT ![c].pc = IF @ = "asleep" THEN AfterWake ELSE @]
    /\ rlEvent' = [ev |-> "interrupt", core |-> c, from |-> home, n |-> woken,
                   had |-> 0, attempts |-> 0, remaining |-> 0]
    /\ UNCHANGED <<rlInjector, rlSleeps>>

\* spawn(future) outside a running executor: RUNTIME.injector.spawn
spawn_injector ==
    /\ UNCHANGED notRun
    /\ RlTotal + 1 <= MaxRunnable
    /\ rlInjector' = rlInjector + 1
    /\ rlEvent' = [ev |-> "spawn", core |-> NoCpu, from |-> NoCpu, n |-> 1, had |-> 0,
                   attempts |-> 0, remaining |-> 0]
    /\ UNCHANGED <<rlQueue, rlPc, rlSleeps>>

RunInit ==
    /\ rlQueue = [c \in CPUS |-> 0]
    /\ rlInjector = 0
    /\ rlPc = [c \in CPUS |-> [pc |-> "tick", attempts |-> 0, remaining |-> 0,
                               stolen |-> 0]]
    /\ rlSleeps = [c \in CPUS |-> 0]
    /\ rlEvent = [ev |-> "step", core |-> NoCpu, from |-> NoCpu, n |-> 0, had |-> 0,
                  attempts |-> 0, remaining |-> 0]

RunNext ==
    \/ \E c \in CPUS, again \in 0..MaxRunnable : Executor_tick(c, again)
    \/ \E c \in CPUS : try_steal_injector(c)
    \/ \E c \in CPUS, victim_idx \in 0..(ActiveCores - 1) : try_steal_attempt(c, victim_idx)
    \/ \E c \in CPUS : enable_interrupts_and_halt(c)
    \/ \E c \in CPUS, home \in CPUS, woken \in 0..1 : interrupt_on(c, home, woken)
    \/ spawn_injector

-----------------------------------------------------------------------------
(* The PIT: Pit::sleep and on_tick *)

\* the most calls of Pit::sleep the model follows
MaxSleeps == 2

\* the end of Pit::sleep: if !interrupts_enabled { disable() }
RestoredIf(flag, interrupts_enabled) == IF ~interrupts_enabled THEN FALSE ELSE flag

PitAt(pc) == pitPc.pc = pc

\* Pit::sleep, first statement: SLEEPING.compare_exchange(false, true, ..).unwrap();
\* the caller has interrupts enabled or not
sleep_begin(enabled) ==
    /\ UNCHANGED notPit
    /\ PitAt("idle")
    /\ pitCalls < MaxSleeps
    /\ ~SLEEPING
    /\ SLEEPING' = TRUE
    /\ pitIf' = enabled
    /\ pitCalls' = pitCalls + 1
    /\ pitPc' = [pc |-> "set", entry |-> enabled, interrupts_enabled |-> enabled,
                 own |-> FALSE]
    /\ pitEvent' = [ev |-> "begin", own |-> FALSE, entry |-> enabled]
    /\ UNCHANGED <<pitCounter, pitPending>>

\* interrupts_enabled = are_enabled(); interrupts::disable()
sleep_disable ==
    /\ UNCHANGED notPit
    /\ PitAt("set")
    /\ pitPc' = [pitPc EXCEPT !.pc = "cli", !.interrupts_enabled = pitIf]
    /\ pitIf' = FALSE
    /\ pitEvent' = [ev |-> "disable", own |-> FALSE, entry |-> pitPc.entry]
    /\ UNCHANGED <<SLEEPING, pitCounter, pitPending, pitCalls>>

\* send_command(mode 0, channel 0); set_divisor(divisor): the countdown of
\* this call starts
sleep_program ==
    /\ UNCHANGED notPit
    /\ PitAt("cli")
    /\ pitCounter' = "armed"
    /\ pitPc' = [pitPc EXCEPT !.pc = "loop"]
    /\ pitEvent' = [ev |-> "program", own |-> FALSE, entry |-> pitPc.entry]
    /\ UNCHANGED <<SLEEPING, pitIf, pitPending, pitCalls>>

\* while SLEEPING.load() { enable_and_hlt() }: the test, and sti; hlt
sleep_loop ==
    /\ UNCHANGED notPit
    /\ PitAt("loop")
    /\ IF SLEEPING
       THEN /\ pitIf' = TRUE
            /\ pitPc' = [pitPc EXCEPT !.pc = "hlt"]
       ELSE /\ pitPc' = [pitPc EXCEPT !.pc = "exit"]
            /\ UNCHANGED pitIf
    /\ pitEvent' = [ev |-> "loop", own |-> pitPc.own, entry |-> pitPc.entry]
    /\ UNCHANGED <<SLEEPING, pitCounter, pitPending, pitCalls>>

\* the end of Pit::sleep
sleep_return ==
    /\ UNCHANGED notPit
    /\ PitAt("exit")
    /\ pitIf' = RestoredIf(pitIf, pitPc.interrupts_enabled)
    /\ pitPc' = [pitPc EXCEPT !.pc = "idle"]
    /\ pitEvent' = [ev |-> "return", own |-> pitPc.own, entry |-> pitPc.entry]
    /\ UNCHANGED <<SLEEPING, pitCounter, pitPending, pitCalls>>

\* channel 0 raises its interrupt: the countdown this call programmed has
\* run out, or the counter still runs as it was left before the call
pit_raise ==
    /\ UNCHANGED notPit
    /\ pitCounter \in {"stale", "armed"}
    /\ pitPending' = IF pitCounter = "armed" THEN "own"
                     ELSE IF pitPending = "own" THEN "own" ELSE "stale"
    /\ pitCounter' = IF pitCounter = "armed" THEN "expired" ELSE pitCounter
    /\ pitEvent' = [ev |-> "raise", own |-> pitCounter = "armed", entry |-> pitPc.entry]
    /\ UNCHANGED <<SLEEPING, pitPc, pitIf, pitCalls>>

\* the handler of GSI 0, on_tick, runs when interrupts are enabled:
\* SLEEPING.compare_exchange(true, false, ..); its return ends a hlt
on_tick ==
    /\ UNCHANGED notPit
    /\ pitPending # "none"
    /\ pitIf
    /\ SLEEPING' = FALSE
    /\ pitPending' = "none"
    /\ pitPc' = [pitPc EXCEPT !.pc = IF @ = "hlt" THEN "loop" ELSE @,
                              !.own = IF SLEEPING THEN pitPending = "own" ELSE @]
    /\ pitEvent' = [ev |-> "on_tick", own |-> pitPending = "own", entry |-> pitPc.entry]
    /\ UNCHANGED <<pitIf, pitCounter, pitCalls>>

\* any other interrupt ends a hlt as well
other_interrupt ==
    /\ UNCHANGED notPit
    /\ pitIf
    /\ PitAt("hlt")
    /\ pitPc' = [pitPc EXCEPT !.pc = "loop"]
    /\ pitEvent' = [ev |-> "other", own |-> pitPc.own, entry |-> pitPc.entry]
    /\ UNCHANGED <<SLEEPING, pitIf, pitCounter, pitPending, pitCalls>>

PitInit ==
    /\ SLEEPING = FALSE
    /\ pitPc = [pc |-> "idle", entry |-> FALSE, interrupts_enabled |-> FALSE,
                own |-> FALSE]
    /\ pitIf = FALSE
    /\ pitCounter = "stale"
    /\ pitPending = "none"
    /\ pitCalls = 0
    /\ pitEvent = [ev |-> "step", own |-> FALSE, entry |-> FALSE]

PitNext ==
    \/ \E enabled \in BOOLEAN : sleep_begin(enabled)
    \/ sleep_disable
    \/ sleep_program
    \/ sleep_loop
    \/ sleep_return
    \/ pit_raise
    \/ on_tick
    \/ other_interrupt

-----------------------------------------------------------------------------
(* The network: Interface::run and the DHCPv4 task *)

\* the most Configure events the model follows
MaxConfigures == 2

\* what a DHCPv4 lease holds: address, router (0 for None), DNS servers
LeaseAddrs == 1..2
Leases == [address : LeaseAddrs, router : 0..1, dns : {<< >>, <<1>>, <<2>>, <<1, 2>>}]
NoLease == [address |-> 0, router |-> 0, dns |-> << >>]

\* iface.poll_delay(..): None, or Some(delay)
PollDelays == {"None", "Some"}

\* what ends the select_biased! of Interface::run
Wakeups == {"device", "wait_cell", "sleep"}

SeqRange(q) == {q[i] : i \in DOMAIN q}

\* addrs.iter().position(..) and addrs.remove(index)
RemovePosition(q, a) == IF a \in SeqRange(q) THEN RemoveFirst(q, a) ELSE q

\* while let Some(index) = dns_servers.iter().position(..contains..) { remove(index) }
RemoveAll(q, gone) == SelectSeq(q, LAMBDA a : a \notin gone)

\* Interface::run, one turn of the loop up to its end or its await:
\* iface.poll, iface.poll_delay, and the select only under Some(delay)
run_poll(delay) ==
    /\ UNCHANGED notNet
    /\ netRun = "poll"
    /\ netRun' = IF delay = "Some" THEN "select" ELSE "poll"
    /\ netEvent' = [ev |-> "iface_poll", delay |-> delay, lease |-> NoLease]
    /\ UNCHANGED <<ip_addrs, default_route, dns_servers, current_config, netConfigures>>

\* one of the three futures of the select completes
run_wake(by) ==
    /\ UNCHANGED notNet
    /\ netRun = "select"
    /\ netRun' = "poll"
    /\ netEvent' = [ev |-> "wake", delay |-> by, lease |-> NoLease]
    /\ UNCHANGED <<ip_addrs, default_route, dns_servers, current_config, netConfigures>>

\* dhcp4: Dhcp4Event::Configure(config); the socket reports a lease that
\* differs from the one it reported last
dhcp4_Configure(config) ==
    /\ UNCHANGED notNet
    /\ netConfigures < MaxConfigures
    /\ config # current_config
    /\ netConfigures' = netConfigures + 1
    /\ ip_addrs' = Append(ip_addrs, config.address)
    /\ default_route' = config.router
    /\ dns_servers' = dns_servers \o config.dns
    /\ current_config' = config
    /\ netEvent' = [ev |-> "Configure", delay |-> "None", lease |-> config]
    /\ UNCHANGED netRun

\* dhcp4: Dhcp4Event::Deconfigure
dhcp4_Deconfigure ==
    /\ UNCHANGED notNet
    /\ IF current_config # NoLease
       THEN /\ ip_addrs' = RemovePosition(ip_addrs, current_config.address)
            /\ default_route' = 0
            /\ dns_servers' = RemoveAll(dns_servers, SeqRange(current_config.dns))
       ELSE UNCHANGED <<ip_addrs, default_route, dns_servers>>
    /\ netEvent' = [ev |-> "Deconfigure", delay |-> "None", lease |-> current_config]
    /\ UNCHANGED <<netRun, current_config, netConfigures>>

NetInit ==
    /\ netRun = "poll"
    /\ ip_addrs = << >>
    /\ default_route = 0
    /\ dns_servers = << >>
    /\ current_config = NoLease
    /\ netConfigures = 0
    /\ netEvent = [ev |-> "step", delay |-> "None", lease |-> NoLease]

NetNext ==
    \/ \E delay \in PollDelays : run_poll(delay)
    \/ \E by \in Wakeups : run_wake(by)
    \/ \E config \in Leases : dhcp4_Configure(config)
    \/ dhcp4_Deconfigure

-----------------------------------------------------------------------------
(* The keyboard: i8042::interrupt and next_key *)

\* the keys the keyboard sends in a run of the model, numbered in the order
\* of their arrival
MaxKeys == 34

\* ArrayQueue::new(32)
KEY_QUEUE_SIZE == 32

\* what the pop after KEY_WAKER.register sees
SecondPop_none(queue) == << >>
SecondPop(queue) == queue

KbdStep(ev, key, expected) == [ev |-> ev, key |-> key, expected |-> expected]

\* interrupt(irq), Change::Keyboard(key): queue.push(key); a full queue
\* refuses the key and the handler returns
interrupt_push ==
    /\ UNCHANGED notKbd
    /\ kbdIrq = "idle"
    /\ kbdNext <= MaxKeys
    /\ kbdNext' = kbdNext + 1
    /\ IF Len(KEY_QUEUE) < KEY_QUEUE_SIZE
       THEN /\ KEY_QUEUE' = Append(KEY_QUEUE, kbdNext)
            /\ kbdAccepted' = Append(kbdAccepted, kbdNext)
            /\ kbdIrq' = "wake"
            /\ kbdEvent' = KbdStep("push", kbdNext, 0)
       ELSE /\ kbdEvent' = KbdStep("refused", kbdNext, 0)
            /\ UNCHANGED <<KEY_QUEUE, kbdAccepted, kbdIrq>>
    /\ UNCHANGED <<KEY_WAKER, kbdTask, kbdNotified>>

\* interrupt(irq) after a successful push: KEY_WAKER.wake()
interrupt_wake ==
    /\ UNCHANGED notKbd
    /\ kbdIrq = "wake"
    /\ kbdIrq' = "idle"
    /\ KEY_WAKER' = FALSE
    /\ kbdNotified' = (kbdNotified \/ KEY_WAKER)
    /\ kbdEvent' = KbdStep("wake", 0, 0)
    /\ UNCHANGED <<KEY_QUEUE, kbdTask, kbdNext, kbdAccepted>>

\* next_key, the fast path: queue.pop()
next_key_fast ==
    /\ UNCHANGED notKbd
    /\ kbdTask = "fast"
    /\ IF KEY_QUEUE # << >>
       THEN /\ KEY_QUEUE' = Tail(KEY_QUEUE)
            /\ kbdAccepted' = Tail(kbdAccepted)
            /\ kbdEvent' = KbdStep("return", Head(KEY_QUEUE), Head(kbdAccepted))
            /\ UNCHANGED kbdTask
       ELSE /\ kbdTask' = "register"
            /\ kbdEvent' = KbdStep("empty", 0, 0)
            /\ UNCHANGED <<KEY_QUEUE, kbdAccepted>>
    /\ UNCHANGED <<KEY_WAKER, kbdIrq, kbdNotified, kbdNext>>

\* next_key: KEY_WAKER.register(cx.waker())
next_key_register ==
    /\ UNCHANGED notKbd
    /\ kbdTask = "register"
    /\ KEY_WAKER' = TRUE
    /\ kbdTask' = "pop"
    /\ kbdEvent' = KbdStep("register", 0, 0)
    /\ UNCHANGED <<KEY_QUEUE, kbdIrq, kbdNotified, kbdNext, kbdAccepted>>

\* next_key: the pop after the registration; Some(key) takes the waker back
\* and is Ready, None is Pending
next_key_second ==
    /\ UNCHANGED notKbd
    /\ kbdTask = "pop"
    /\ IF SecondPop(KEY_QUEUE) # << >>
       THEN /\ KEY_QUEUE' = Tail(KEY_QUEUE)
            /\ kbdAccepted' = Tail(kbdAccepted)
            /\ KEY_WAKER' = FALSE
            /\ kbdTask' = "fast"
            /\ kbdEvent' = KbdStep("return_second", Head(KEY_QUEUE), Head(kbdAccepted))
       ELSE /\ kbdTask' = "pending"
            /\ kbdEvent' = KbdStep("pending", 0, 0)
            /\ UNCHANGED <<KEY_QUEUE, kbdAccepted, KEY_WAKER>>
    /\ UNCHANGED <<kbdIrq, kbdNotified, kbdNext>>

\* the executor polls the task again after its waker was woken
next_key_repoll ==
    /\ UNCHANGED notKbd
    /\ kbdTask = "pending"
    /\ kbdNotified
    /\ kbdNotified' = FALSE
    /\ kbdTask' = "fast"
    /\ kbdEvent' = KbdStep("repoll", 0, 0)
    /\ UNCHANGED <<KEY_QUEUE, KEY_WAKER, kbdIrq, kbdNext, kbdAccepted>>

KbdInit ==
    /\ KEY_QUEUE = << >>
    /\ KEY_WAKER = FALSE
    /\ kbdIrq = "idle"
    /\ kbdTask = "fast"
    /\ kbdNotified = FALSE
    /\ kbdNext = 1
    /\ kbdAccepted = << >>
    /\ kbdEvent = KbdStep("step", 0, 0)

KbdNext ==
    \/ interrupt_push
    \/ interrupt_wake
    \/ next_key_fast
    \/ next_key_register
    \/ next_key_second
    \/ next_key_repoll

Init ==
    /\ HeapInit /\ IrqInit /\ LazyInit /\ TimeInit /\ ExecInit /\ FrameInit /\ MapInit
    /\ BootInit /\ PciInit /\ LockInit /\ IsrInit /\ RunInit /\ PitInit /\ NetInit /\ KbdInit

SpecHeap == Init /\ [][HeapNext]_vars

SpecIrq == Init /\ [][IrqNext]_vars

SpecLazy == Init /\ [][LazyNext]_vars

SpecTime == Init /\ [][TimeNext]_vars

SpecExec == Init /\ [][ExecNext]_vars

SpecFrame == Init /\ [][FrameNext]_vars

SpecMap == Init /\ [][MapNext]_vars

SpecBoot == Init /\ [][BootNext]_vars

SpecPci == Init /\ [][PciNext]_vars

SpecLock == Init /\ [][LockNext]_vars

SpecIsr == Init /\ [][IsrNext]_vars

SpecRun == Init /\ [][RunNext]_vars

SpecPit == Init /\ [][PitNext]_vars

SpecNet == Init /\ [][NetNext]_vars

SpecKbd == Init /\ [][KbdNext]_vars

-----------------------------------------------------------------------------
(* Claims about the heap, checked under SpecHeap *)

\* the byte range of a live allocation: [ptr, ptr + layout.size)
Disjoint(a, b) ==
    \/ a.ptr + a.layout[1] <= b.ptr
    \/ b.ptr + b.layout[1] <= a.ptr

\* C1: after any sequence of alloc and dealloc calls (dealloc only of live
\* pointers, with their own layout) the byte ranges [p, p + Lp.size) and
\* [q, q + Lq.size) of any two distinct live allocations are disjoint.
C1_NoLiveOverlap ==
    \A a, b \in live : a # b => Disjoint(a, b)

\* C2: every non-null pointer p returned by alloc(layout), for a layout with
\* max(size, align) <= 2048, satisfies p mod layout.align = 0.
C2_Aligned ==
    \A a \in live :
        Max(a.layout[1], a.layout[2]) <= 2048 => a.ptr % a.layout[2] = 0

\* C3: the whole cell [p, p + tier_size) of every allocation served by a slab
\* tier lies inside that tier's sub-range [start, end) and inside
\* [MANAGED_START, MANAGED_END), the tier's last cell included.
C3_CellInsideTier ==
    \A a \in live :
        LET i == Inner_slab(a.layout)
        IN  i # 0 =>
              /\ slabs[i].start <= a.ptr
              /\ a.ptr + slabs[i].size <= slabs[i].end
              /\ MANAGED_START <= a.ptr
              /\ a.ptr + slabs[i].size <= MANAGED_END

\* C18: once the heap is initialised, an alloc whose max(size, align) exceeds
\* 2048 is served by the fallback heap of the last sub-range; nothing else
\* uses that sub-range, so it has space and the pointer returned is non-null
\* and inside it.
C18_LargeAllocServedByFallback ==
    (/\ heapRet.op = "alloc"
     /\ Max(heapRet.layout[1], heapRet.layout[2]) > 2048
     /\ slabs[NumSlabs].end # 0)
        => /\ heapRet.ptr # NULL
           /\ slabs[NumSlabs].end <= heapRet.ptr
           /\ heapRet.ptr < MANAGED_END

\* C19: p = alloc(L); dealloc(p, L); q = alloc(L) with no call in between
\* (p non-null, L served by a slab tier): q lies in the tier that served p
\* and the tier's next pointer is again what it was after the first alloc.
C19_RoundTripRestoresTier ==
    heapHist.phase = "done"
        => /\ heapRet.op = "alloc"
           /\ slabs[heapHist.tier].start <= heapRet.ptr
           /\ heapRet.ptr < slabs[heapHist.tier].end
           /\ slabs[heapHist.tier].next = heapHist.next1

\* a round trip on a tier whose first alloc popped a free-list cell while
\* another freed cell stays chained behind it
C19_Witness ==
    /\ heapHist.phase = "done"
    /\ heapRet.ptr = heapHist.p
    /\ heapHist.next1 \in DOMAIN heapMem

-----------------------------------------------------------------------------
(* Claims about the vector table, checked under SpecIrq *)

\* the slot in which a guard's registration installed its handler:
\* set_interrupt writes slot gsi, set_interrupt_msi writes slot gsi - 32
InstalledSlot(g) == IF g.kind = "IoApic" THEN g.gsi ELSE g.gsi - 32

\* C4: for every guard returned by set_interrupt_static / set_interrupt_dyn for
\* GSI g (after override resolution) the slot for g is non-None from the return
\* of the registration until the guard is dropped, and None right after the drop.
C4_IoApicSlotHeldUntilDrop ==
    /\ \A g \in guards : g.kind = "IoApic" => Slot(g.gsi) # None
    /\ (irqEvent.ev = "dropped" /\ irqEvent.guard.kind = "IoApic")
          => Slot(irqEvent.guard.gsi) = None

\* C5: for every guard returned by set_interrupt_msi the slot in which the
\* registration installed the closure is non-None until the guard is dropped;
\* the drop sets exactly that slot to None and writes no other slot.
C5_MsiSlotHeldAndCleared ==
    /\ \A g \in guards : g.kind # "IoApic" => Slot(InstalledSlot(g)) # None
    /\ (irqEvent.ev = "dropped" /\ irqEvent.guard.kind # "IoApic")
          => /\ irqEvent.slot = InstalledSlot(irqEvent.guard)
             /\ Slot(InstalledSlot(irqEvent.guard)) = None

\* C6: while the guard of a registered GSI is live, an interrupt delivered on
\* that GSI's vector runs the handler registered with that guard (once: a
\* dispatch runs one handler); after the guard was dropped the handler does
\* not run.
C6_LiveHandlerRunsDroppedDoesNot ==
    irqEvent.ev = "irq" =>
        /\ \A h \in irqEvent.owners : irqEvent.ran = h
        /\ \A g \in dropped : g.kind = "IoApic" => irqEvent.ran # g.id

\* C7: each vector-table slot is referred to by at most one live guard, and a
\* drop never clears the slot of a handler that belongs to another live guard.
C7_SlotExclusivelyOwned ==
    /\ \A g1, g2 \in guards : g1 # g2 => InstalledSlot(g1) # InstalledSlot(g2)
    /\ irqEvent.ev = "dropped" =>
          \A g \in guards : InstalledSlot(g) # irqEvent.slot

-----------------------------------------------------------------------------
(* Claims about the lazy mapping, checked under SpecLazy *)

\* the managed heap region [MANAGED_START, MANAGED_END)
InManaged(a) == a >= MANAGED_START /\ a < MANAGED_END

\* C8: a page fault at an address a of [MANAGED_START, MANAGED_END) whose page
\* is unmapped ends with lazy_map(a) = true after one fault, and then
\* translate(a) is Some and the page of a reads as zero.
C8_FirstTouchMapsZeroPage ==
    (/\ lazyEvent.ev = "fault_done"
     /\ InManaged(lazyEvent.addr)
     /\ ~lazyEvent.mappedAtCheck)
        => /\ lazyEvent.ret = "true"
           /\ lazyEvent.faults = 1
           /\ translate_addr(lazyEvent.addr)
           /\ pageData[PageOf(lazyEvent.addr)] = "zero"

\* C9: lazy_map(a) returns false exactly when a is outside the managed heap
\* region or the page of a is already mapped; a false return has allocated no
\* frame, changed no page-table entry and sent no IPI, and the page-fault
\* handler has panicked.
C9_FalseExactlyWhenOutsideOrMapped ==
    lazyEvent.ev = "fault_done" =>
        /\ (lazyEvent.ret = "false")
              <=> (~InManaged(lazyEvent.addr) \/ lazyEvent.mappedAtCheck)
        /\ lazyEvent.ret = "false"
              => /\ lazyEvent.allocs = 0
                 /\ lazyEvent.ptes = 0
                 /\ lazyEvent.ipis = 0
                 /\ lazyEvent.panicked

-----------------------------------------------------------------------------
(* Claims about the clock, checked under SpecTime *)

\* C10: a call of now() that begins after another call of now(), on any CPU,
\* has returned, returns a result greater than or equal to that call's result,
\* however on_tick interleaves with the three reads of now().
C10_NowMonotonic ==
    timeEvent.ev = "now" => timeEvent.result >= timeEvent.floor

\* C22: only the timer interrupts of CPU 0 advance the clocks: whenever no
\* timer handler is running, k being the number of timer interrupts CPU 0 has
\* handled, UPTIME_MS = k * 5 and CLOCK_TICKS = k, however many timer
\* interrupts the other CPUs have handled.
C22_OnlyCpu0Ticks ==
    tickPc = "idle" => /\ UPTIME_MS = timerIrqs[0] * TIMER_INTERVAL
                       /\ CLOCK_TICKS = timerIrqs[0]

\* CPU 0 has handled two timer interrupts and another CPU at least one
C22_Witness ==
    /\ tickPc = "idle"
    /\ timerIrqs[0] = 2
    /\ \E c \in CPUS \ {0} : timerIrqs[c] >= 1
    /\ UPTIME_MS = 2 * TIMER_INTERVAL

-----------------------------------------------------------------------------
(* Claims about the executor, checked under SpecExec *)

\* C11: when the future of a spawned task panics inside poll (after
\* late_init), its join handle has been given Err exactly once and nothing
\* else, the task is complete, and no task that is complete is being polled.
C11_PanicDeliversErrOnce ==
    /\ (execEvent.ev = "poll_end" /\ execEvent.outcome = "panic" /\ execEvent.full)
          => /\ joinOut[execEvent.task] = <<"Err">>
             /\ taskSt[execEvent.task].st = "complete"
    /\ \A c \in CPUS : coreSt[c].st = "poll" => joinOut[coreSt[c].task] = << >>

\* C12: after late_init a panic inside a task's poll never halts the core: the
\* core is back in its run loop and the last output given to the task's join
\* handle is Err, whatever happened to the payloads of earlier panics.
C12_TaskPanicNeverHaltsCore ==
    (execEvent.ev = "poll_end" /\ execEvent.outcome = "panic" /\ execEvent.full)
        => /\ ~execEvent.halted
           /\ coreSt[execEvent.core].st = "run"
           /\ joinOut[execEvent.task] # << >>
           /\ joinOut[execEvent.task][Len(joinOut[execEvent.task])] = "Err"

\* the number of places that hold task t: queue entries, polling cores, and
\* the waker of a waiting task
Occurrences(q, t) == Cardinality({i \in DOMAIN q : q[i] = t})

RECURSIVE SumOver(_, _)
SumOver(S, f) ==
    IF S = {} THEN 0
    ELSE LET x == CHOOSE y \in S : TRUE IN f[x] + SumOver(S \ {x}, f)

Holders(t) ==
    Occurrences(injector, t)
    + SumOver(CPUS, [c \in CPUS |-> Occurrences(runq[c], t)])
    + Cardinality({c \in CPUS : coreSt[c].st \in {"poll", "halted"} /\ coreSt[c].task = t})
    + (IF taskSt[t].st = "waiting" THEN 1 ELSE 0)

-----------------------------------------------------------------------------
(* Claims about the frame allocator, checked under SpecFrame *)

\* C14: allocate_frame never returns a frame that is live, and while frames
\* are waiting in the free list it returns the one deallocated last.
C14_NoLiveFrameAndLifo ==
    (frameEvent.ev = "allocate" /\ frameEvent.frame # 0)
        => /\ ~frameEvent.wasLive
           /\ frameEvent.freed # << >>
                 => frameEvent.frame = frameEvent.freed[Len(frameEvent.freed)]

\* C14 witness: allocate_frame has returned a frame while two or more
\* deallocated frames were waiting
C14_Witness ==
    /\ frameEvent.ev = "allocate"
    /\ Len(frameEvent.freed) >= 2
    /\ frameEvent.frame # 0

\* C15: deallocate_frame never panics, however many deallocations came before.
C15_DeallocateNeverPanics == ~framePanic

-----------------------------------------------------------------------------
(* Claims about running out of frames, checked under SpecLazy *)

\* C16: a page fault whose lazy_map finds no frame (for the page or for a
\* page table) ends with an error value returned to the handler, never with
\* a panic inside lazy_map.
C16_OutOfFramesIsReported ==
    lazyEvent.ev = "fault_done" => lazyEvent.ret # "panic"

-----------------------------------------------------------------------------
(* Claims about the vectors given to MSI, checked under SpecIrq *)

\* C20: the vector picked by the scan of set_interrupt_msi is strictly greater
\* than IOAPIC_START + gsi for every gsi an IOAPIC serves, and at most
\* LAST_FREE = 251, so never one of the reserved vectors 252..255.
C20_MsiVectorAboveIoApic ==
    \A c \in CPUS :
        irqPc[c].op \in {"msi_scanned", "msi_mapped"}
            => /\ \A gsi \in 0..(NUM_VECTORS - 1) :
                    get_io_apic(gsi) # {} => irqPc[c].gsi > IOAPIC_START + gsi
               /\ irqPc[c].gsi <= LAST_FREE

-----------------------------------------------------------------------------
(* Claims about map_address, checked under SpecMap *)

\* C17: a call map_address(pa, size) that returns gives a non-null va with
\* va mod 4096 = pa mod 4096 and translate(va + k) = pa + k for every
\* 0 <= k < size, and every page that was mapped when the call began still
\* translates as it did.
C17_MapAddressTranslates ==
    mapEvent.ev = "mapped"
        => /\ mapEvent.va # NULL
           /\ mapEvent.va % PAGE_SIZE = mapEvent.phys % PAGE_SIZE
           /\ \A k \in 0..(mapEvent.size - 1) :
                 Translate(mapEvent.va + k) = mapEvent.phys + k
           /\ \A p \in DOMAIN mapEvent.before :
                 /\ p \in DOMAIN kernelMap
                 /\ kernelMap[p] = mapEvent.before[p]

\* a call for a register block that starts inside a page and spans three
\* pages returns while pages mapped by an earlier call exist, after the search
\* passed over a free run that was too short
C17_Witness ==
    /\ mapEvent.ev = "mapped"
    /\ mapEvent.num_pages = 3
    /\ mapEvent.phys % PAGE_SIZE # 0
    /\ Cardinality(DOMAIN mapEvent.before) >= 2
    /\ REGION_START \notin DOMAIN kernelMap

-----------------------------------------------------------------------------
(* Claims about boot and SMP bring-up, checked under SpecBoot *)

\* C21: every write to a vector-table entry happens while interrupts are
\* disabled on the CPU that performs the write.
C21_TableWrittenWithInterruptsOff ==
    bootEvent.ev = "table_write" => ~bootEvent.enabled

\* C24: a CPU that was given a goto address is not the BSP and finds its
\* GDT/TSS published in AP_INFO under its processor id until it takes it; the
\* GDT an AP loads is the one stored under its own id, taken once (the entry
\* is empty afterwards); and the steps of an AP are a prefix of SSE enable,
\* set CPU id, load GDT, LAPIC/IDT init, core-local storage init, ap_main.
C24_ApBringUpOrder ==
    /\ BSP \notin goto_address
    /\ \A c \in goto_address :
          /\ AP_INFO.some
          /\ IF apGdt[c] = 0 THEN AP_INFO.v[c + 1].gdt = c + 1
                             ELSE apGdt[c] = c + 1 /\ AP_INFO.v[c + 1].gdt = 0
    /\ \A c \in BootCpus :
          /\ apDone[c] # << >> => c \in goto_address
          /\ apDone[c] = SubSeq(<< "init_sse", "set_pid", "gdt_init_smp",
                                   "interrupts_init_smp", "local_init", "ap_main" >>,
                                1, Len(apDone[c]))
          /\ (apGdt[c] # 0) = (Len(apDone[c]) >= 3)

\* every application processor has reached ap_main
C24_Witness ==
    \A c \in BootCpus \ {BSP} : Len(apDone[c]) = 6 /\ apGdt[c] = c + 1

\* C25: each of the three stack pointers of an AP's TSS is the top of the
\* heap buffer allocated for it, the stack regions of all CPUs and stacks are
\* pairwise disjoint, and none overlaps the stack the BSP runs on (the region
\* of a stack pointer top is [top - STACK_SIZE, top)).
C25_ApStacksAreOwnHeapBuffers ==
    \A i \in 1..Len(infos) :
        \A j \in 1..3 :
            /\ infos[i].stacks[j] = infos[i].bufs[j] + STACK_SIZE
            /\ \A i2 \in 1..Len(infos) : \A j2 \in 1..3 :
                  <<i, j>> # <<i2, j2>> =>
                      \/ infos[i].stacks[j] <= infos[i2].stacks[j2] - STACK_SIZE
                      \/ infos[i2].stacks[j2] <= infos[i].stacks[j] - STACK_SIZE
            /\ \/ infos[i].stacks[j] <= BspStackTop - 16 * PAGE_SIZE
               \/ BspStackTop <= infos[i].stacks[j] - STACK_SIZE

-----------------------------------------------------------------------------
(* Claims about concurrent calls of map_address, checked under SpecMap *)

\* C28: map_address calls that run concurrently on different CPUs behave as
\* if search and map were one step under the mapper lock: no call finds, in
\* its map loop, a page that another call mapped after this call's search
\* passed it (map_to never fails with PageAlreadyMapped).
C28_ConcurrentMapsAreSerialized ==
    mapEvent.ev = "panic" => mapEvent.err # "PageAlreadyMapped"

-----------------------------------------------------------------------------
(* Claims about concurrent page faults, checked under SpecLazy *)

\* C23: send_flush_tlb sends vector 252 to every CPU except the sender, a CPU
\* that handles it has an empty TLB afterwards, and once every change of the
\* page table has had its IPI sent and every CPU has handled the IPIs sent to
\* it, no TLB holds a translation that differs from the page table.
C23_ShootdownLeavesNoStaleTranslation ==
    /\ lazyEvent.ev = "ipi" =>
          /\ lazyEvent.vector = 252
          /\ lazyEvent.to = CPUS \ {lazyEvent.cpu}
          /\ lazyEvent.to \subseteq tlbPending
    /\ lazyEvent.ev = "tlb_flush" => tlb[lazyEvent.cpu] = {}
    /\ (tlbPending = {} /\ \A c \in CPUS : faultPc[c].op # "mapped")
          => \A c \in CPUS : \A t \in tlb[c] : t[2] = Walk(t[1])

\* a CPU has handled the shootdown of a page another CPU mapped, no IPI is
\* outstanding, and the other CPU's TLB holds a translation
C23_Witness ==
    /\ lazyEvent.ev = "tlb_flush"
    /\ tlbPending = {}
    /\ MAPPER # << >>
    /\ \E c \in CPUS \ {lazyEvent.cpu} : tlb[c] # {}

\* C29: a page fault on a page of the heap that another CPU's fault mapped
\* before this fault's lazy_map looked at it is resolved as well: the handler
\* returns and the CPU resumes, it does not panic.
C29_SecondFaultOnSamePageResumes ==
    (/\ lazyEvent.ev = "fault_done"
     /\ lazyEvent.addr >= HEAP_START /\ lazyEvent.addr < HEAP_END
     /\ InManaged(lazyEvent.addr)
     /\ lazyEvent.mappedAtCheck)
        => /\ ~lazyEvent.panicked
           /\ faultPc[lazyEvent.cpu] = Idle

-----------------------------------------------------------------------------
(* Claims about the PCI scan and the drivers, checked under SpecPci *)

\* C26: of the six BAR slots of a scanned endpoint, every slot that does not
\* immediately follow a Memory64 BAR has been read and is recorded as the
\* device has it: parsing resumes two slots after a Memory64 BAR.
C26_BarAfterMemory64PairIsRead ==
    pciDevice.scanned =>
        \A i \in 0..5 :
            (i = 0 \/ pciDevice.regs[i - 1] # "Memory64")
                => /\ i \in pciDevice.read
                   /\ pciDevice.bars[i] = pciDevice.regs[i]

\* C27: a failure to set a device up during drivers::init never panics the
\* kernel: the failure is logged, and the loop goes on with the next device.
C27_SetupFailureIsLoggedNotFatal ==
    (drvEvent.ev = "device" /\ drvEvent.fault # "none")
        => /\ drvEvent.result # "panic"
           /\ drvPc = "pci"

-----------------------------------------------------------------------------
(* Claims about the spinlocks, checked under SpecLock *)

\* CPU c spins on a lock that will never be free: its holder is c itself, a
\* halted CPU, or a CPU that is stuck in turn (n bounds the length of the chain)
RECURSIVE Stuck(_, _)
Stuck(c, n) ==
    /\ Wants(c) # ""
    /\ LET h == lkHolder[Wants(c)]
       IN  /\ h # NoCpu
           /\ \/ h = c
              \/ lkPc[h].op = "halted"
              \/ IF n = 0 THEN TRUE ELSE Stuck(h, n - 1)

\* C30: a page fault taken under the heap lock is served without that lock,
\* mapper and frame-allocator lock are always taken mapper first, and so no
\* interleaving of allocations, map_address calls and page faults leaves a
\* CPU spinning on a lock that is never released.
C30_NoLockIsWaitedForForever ==
    /\ \A c \in CPUS :
          /\ (lkPc[c].op \in {"fault", "fault_frames"} /\ lkPc[c].inAlloc)
                => Wants(c) # "heap"
          /\ lkHolder["frames"] = c => lkHolder["mapper"] = c
    /\ \A c \in CPUS : ~Stuck(c, Cardinality(CPUS))

-----------------------------------------------------------------------------
(* Claims about the order of store and unmask, checked under SpecIrq *)

\* C31: from the start of a registration to the end of the guard's drop, a
\* source that can raise its interrupt (an unmasked IOAPIC entry, an enabled
\* MSI or MSI-X capability) has a handler in the slot its vector is
\* dispatched to, so its interrupt never finds the slot empty.
C31_EnabledSourceHasHandler ==
    /\ \A d \in Devices :
          msiDev[d].enabled => Slot(msiDev[d].vector - 32) # None
    /\ \A gsi \in DOMAIN ioapicEntry :
          ioapicEntry[gsi].enabled => Slot(gsi) # None

-----------------------------------------------------------------------------
(* Claims about interrupt entry and exit, checked under SpecIsr *)

\* C32: a Dynamic closure is never freed while it is executing: no handler
\* that a CPU is inside runs a closure whose Box has been dropped.
C32_RunningClosureIsNotFreed ==
    \A c \in CPUS : \A i \in DOMAIN isrStack[c] :
        isrStack[c][i].h # 0 => isrStack[c][i].h \notin isrFreed

\* C33: one EOI is written per interrupt delivered through the LAPIC and none
\* for a CPU exception: a handler that returns writes an EOI only if it is
\* the handler of a delivered interrupt, and the interrupts in service at a
\* LAPIC are those whose handlers the CPU is still inside.
C33_EoiOnlyForDeliveredInterrupt ==
    /\ isrEvent.ev = "return" => (isrEvent.eoi <=> isrEvent.kind = "irq")
    /\ \A c \in CPUS :
          inService[c] =
              Cardinality({i \in DOMAIN isrStack[c] : isrStack[c][i].kind = "irq"})

\* C38: no interrupt handler spins on a spinlock held by the code it
\* interrupted on the same CPU: the handler of a device interrupt that is
\* about to log (warn!) never finds LOCK held by its own CPU.
C38_HandlerNeverWaitsForInterruptedCode ==
    \A c \in CPUS :
        (/\ isrStack[c] # << >>
         /\ isrStack[c][Len(isrStack[c])].kind = "irq"
         /\ ~isrStack[c][Len(isrStack[c])].logged)
            => logHolder # c

-----------------------------------------------------------------------------
(* Claims about the run loop, checked under SpecRun *)

\* C34: a core is at its halt, or asleep in it, only after a tick that left
\* nothing in its local queue and took nothing from the injector or a victim;
\* and a core never enters the halt a second time with a task in its queue
\* without a tick in between, so a task made runnable at any point, also
\* between the end of the tick and the halt, is polled by the tick that
\* follows the next interrupt on that core.
C34_HaltOnlyAfterIdleTickAndOneInterruptSuffices ==
    \A c \in CPUS :
        /\ rlPc[c].pc \in {"tohalt", "asleep"} =>
              rlPc[c].remaining = 0 /\ rlPc[c].stolen = 0
        /\ rlSleeps[c] <= 1
        /\ (rlEvent.ev = "interrupt" /\ rlEvent.core = c) => rlPc[c].pc # "asleep"

\* C34 witness: a core sleeps in the halt with a task in its queue, made
\* runnable by an interrupt between the end of its tick and the halt
C34_Witness ==
    \E c \in CPUS : rlPc[c].pc = "asleep" /\ rlQueue[c] > 0 /\ rlSleeps[c] = 1

-----------------------------------------------------------------------------
(* Claims about the PIT, checked under SpecPit *)

\* C37: Pit::sleep returns only after the PIT interrupt of the countdown that
\* this call programmed has been handled, and when it returns SLEEPING is
\* false and the interrupt flag is what it was on entry.
C37_SleepEndsWithOwnInterrupt ==
    pitEvent.ev = "return" =>
        /\ pitEvent.own
        /\ ~SLEEPING
        /\ pitIf = pitEvent.entry

-----------------------------------------------------------------------------
(* Claims about the network, checked under SpecNet *)

\* C36: every turn of the loop of the interface task, after it has polled the
\* stack, is suspended in the select of device wake, wait cell and sleep,
\* also when the stack reports no next poll deadline.
C36_EveryIterationAwaits ==
    netEvent.ev = "iface_poll" => netRun = "select"

\* C40: after a Deconfigure the interface holds no IPv4 address, no default
\* IPv4 route and no DNS server that an earlier Configure installed, also
\* after two Configures with different leases and no Deconfigure between.
C40_DeconfigureRemovesEveryLease ==
    netEvent.ev = "Deconfigure" =>
        /\ ip_addrs = << >>
        /\ default_route = 0
        /\ dns_servers = << >>

-----------------------------------------------------------------------------
(* Claims about the keyboard queue, checked under SpecKbd *)

\* C39: in every interleaving of the keyboard interrupt handler with the one
\* task that polls next_key, the keys pushed successfully are returned once
\* each and in the order of their arrival (the queue always holds exactly the
\* accepted keys not yet returned, and a returned key is the oldest of them),
\* and the task is never pending with a key in the queue unless it has been
\* woken or the handler is about to wake the waker it registered.
C39_KeysInOrderAndNoLostWakeup ==
    /\ KEY_QUEUE = kbdAccepted
    /\ \A i \in DOMAIN KEY_QUEUE : \A j \in DOMAIN KEY_QUEUE :
          i < j => KEY_QUEUE[i] < KEY_QUEUE[j]
    /\ kbdEvent.ev \in {"return", "return_second"} => kbdEvent.key = kbdEvent.expected
    /\ (kbdTask = "pending" /\ KEY_QUEUE # << >>) =>
          (kbdNotified \/ (kbdIrq = "wake" /\ KEY_WAKER))

\* C39 witness: a key pushed between the fast path and the registration has
\* been returned by the second pop
C39_Witness ==
    kbdEvent.ev = "return_second"

====
